---- MODULE Spec2Model ----
(***************************************************************************)
(* Mython interpreter: the streaming lexer of lexer.h (the State classes   *)
(* with per-state transition tables, lexer.h:1102-1726) as a state         *)
(* machine.                                                                *)
(*                                                                         *)
(* The input stream is read lazily: every iteration of Lexer::FeedQueue    *)
(* either takes the next byte of the stream (any byte of Chars) or finds   *)
(* the stream exhausted.  A byte is a one-character string, the value      *)
(* char_traits<char>::eof() handed to FeedChar is the string "EOF".        *)
(* Texts (value_, Id and String payloads) are sequences of bytes.          *)
(*                                                                         *)
(* The second part is the evaluator of statement.cpp and runtime.cpp: the  *)
(* Execute functions of the AST nodes as a machine with an explicit stack  *)
(* of Execute calls, the closures of the calls in progress, and the        *)
(* objects the holders refer to.                                           *)
(***************************************************************************)
EXTENDS Integers, Sequences, FiniteSets, TLC

\* ------------------------------------------------------------------ bounds
\* most bytes read from the input streams of a run
MaxInput == 6
\* longest text accumulated in value_
MaxValue == 1
\* NextToken calls counted after the first Eof was returned
MaxEofReturns == 2
\* most Lexer objects constructed one after the other in a process
MaxLexers == 2
\* most items (a byte, or a backslash and a byte) between a literal's quotes
MaxItems == 2
\* most statements of an executed program
MaxStmts == 2
\* the Numbers of the executed programs: -MaxNumber..MaxNumber and the two
\* ends of int
MaxNumber == 1
\* most bytes of a String constant
MaxStrLen == 1
\* most arguments of a print statement
MaxArgs == 2

\* ------------------------------------------------------- program constants
INDENT_SIZE_WS == 2
SYMBOLS_COUNT == 11

\* ------------------------------------------------------------- the alphabet
EOFC == "EOF"
Spaces == {" "}
\* std::isalpha in the "C" locale, and std::isdigit
Letters == {"a", "b", "c", "d", "e", "f", "g", "h", "i", "j", "k", "l", "m",
            "n", "o", "p", "q", "r", "s", "t", "u", "v", "w", "x", "y", "z",
            "A", "B", "C", "D", "E", "F", "G", "H", "I", "J", "K", "L", "M",
            "N", "O", "P", "Q", "R", "S", "T", "U", "V", "W", "X", "Y", "Z"}
Digits == {"0", "1", "2", "3", "4", "5", "6", "7", "8", "9"}
CompareChars == {"=", "<", ">", "!"}
Others == {"("}
\* the bytes a stream read byte by byte may yield: one or more of each class
Chars == {"\n", "#", "'", "\"", "\\"} \cup Spaces \cup {"n"} \cup {"1"}
             \cup CompareChars \cup Others

\* ------------------------------------------------------------------ tokens
Tok(ty) == [type |-> ty, value |-> <<>>]
TokV(ty, v) == [type |-> ty, value |-> v]
NoToken == Tok("NoToken")
Garbage == Tok("Garbage")

VARIABLES
    state_,               \* Lexer::state_
    value_,               \* Lexer::value_
    tokens_buffer_,       \* Lexer::tokens_buffer_
    next_indent_ws_,      \* State::next_indent_ws_ (static)
    current_indent_ws_,   \* State::current_indent_ws_ (static)
    eos,                  \* the stream is exhausted (input_.gcount() == 0)
    nread,                \* bytes taken from the streams so far
    pc,                   \* "new", "feed", "idle", "error", "ub"
    caller,               \* who runs FeedQueue: "ctor" or "next"
    queue_size0,          \* FeedQueue's local current_token_queue_size
    ret,                  \* the token the last NextToken returned
    fed,                  \* observation of the last State::FeedChar call
    line_ws,              \* spaces at the start of the current physical line
    line_tokens,          \* a token was emitted on the current physical line
    last_line,            \* how the previous physical line ended
    odd_line,             \* a token-bearing line had an odd space count
    lit_break,            \* newline/end-of-stream hit inside the open literal
    delivered_bal,        \* Indents minus Dedents delivered to the caller
    eof_returns,          \* NextToken calls that returned once Eof was seen
    lexers,               \* Lexer objects constructed so far in the process
    text,                 \* the stream's bytes when they are fixed in advance
    expect,               \* the Expect call made since the lexer last moved
    ending                \* what end-of-stream emitted, as is and after "\n"

VARIABLES
    prog,                 \* the statement the interpreter executes
    ndebug,               \* the build defines NDEBUG: assert() does nothing
    stack,                \* the Execute / Call invocations in progress
    closures,             \* the Closure of the program and of each Call
    heap,                 \* the objects made so far, destroyed ones included
    mode,                 \* what the innermost invocation is about to do
    val,                  \* the holder being returned or thrown
    log,                  \* what the evaluator has done, in order
    output                \* the bytes written to context.GetOutputStream()

\* the evaluator's variables
evars == <<prog, ndebug, stack, closures, heap, mode, val, log, output>>

\* the lexer's variables
lvars == <<state_, value_, tokens_buffer_, next_indent_ws_, current_indent_ws_,
           eos, nread, pc, caller, queue_size0, ret, fed, line_ws,
           line_tokens, last_line, odd_line, lit_break, delivered_bal,
           eof_returns, lexers, text, expect, ending>>

vars == <<lvars, evars>>

\* ------------------------------------------------- Lexer member functions
\* The lexer as a value: the members of Lexer the states touch, the two
\* static counters of State, and whether LexerError is in flight.  While it
\* is in flight no statement runs: every function below leaves such a lexer
\* as it is, so a sequence of statements is a composition of functions.
Self == [state_ |-> state_, value_ |-> value_,
         tokens_buffer_ |-> tokens_buffer_,
         next_indent_ws_ |-> next_indent_ws_,
         current_indent_ws_ |-> current_indent_ws_,
         thrown |-> FALSE]

PushToken(l, token) ==
    IF l.thrown THEN l ELSE [l EXCEPT !.tokens_buffer_ = Append(@, token)]

SetState(l, s) == IF l.thrown THEN l ELSE [l EXCEPT !.state_ = s]

GetValue(l) == l.value_

\* a moved-from std::string is left empty
MoveValue(l) == IF l.thrown THEN l ELSE [l EXCEPT !.value_ = <<>>]

ClearValue(l) == IF l.thrown THEN l ELSE [l EXCEPT !.value_ = <<>>]

BeginNewValue(l, c) == IF l.thrown THEN l ELSE [l EXCEPT !.value_ = <<c>>]

PushChar(l, c) == IF l.thrown THEN l ELSE [l EXCEPT !.value_ = Append(@, c)]

Throw(l) == [l EXCEPT !.thrown = TRUE]

\* ----------------------------------------------------- State base class
Nop(l, c) == l

NextWSIncrement(l) ==
    IF l.thrown THEN l ELSE [l EXCEPT !.next_indent_ws_ = @ + 1]

ZeroNextWS(l) == IF l.thrown THEN l ELSE [l EXCEPT !.next_indent_ws_ = 0]

RECURSIVE PutIndentDedent(_, _, _)
PutIndentDedent(l, token, count) ==
    IF count <= 0 THEN l
    ELSE PutIndentDedent(PushToken(l, token), token, count - 1)

\* the first if of ProcessIndentation after the parity check
PutIndents(l) ==
    IF l.next_indent_ws_ > l.current_indent_ws_
    THEN PutIndentDedent(l, Tok("Indent"),
             (l.next_indent_ws_ - l.current_indent_ws_) \div INDENT_SIZE_WS)
    ELSE l

\* its second if
PutDedents(l) ==
    IF l.current_indent_ws_ > l.next_indent_ws_
    THEN PutIndentDedent(l, Tok("Dedent"),
             (l.current_indent_ws_ - l.next_indent_ws_) \div INDENT_SIZE_WS)
    ELSE l

\* its two closing assignments
SetIndent(l) ==
    [l EXCEPT !.current_indent_ws_ = l.next_indent_ws_,
              !.next_indent_ws_ = 0]

ProcessIndentation(l) ==
    IF l.thrown THEN l
    ELSE IF l.next_indent_ws_ % INDENT_SIZE_WS # 0 THEN Throw(l)
    ELSE SetIndent(PutDedents(PutIndents(l)))

\* the column of the transition tables a byte selects (0-based, as in C++)
SymbolIndex(c) ==
    IF c = "\n" THEN 0
    ELSE IF c \in Spaces THEN 1
    ELSE IF c = "#" THEN 2
    ELSE IF c = EOFC THEN 3
    ELSE IF c = "_" \/ c \in Letters THEN 4
    ELSE IF c \in Digits THEN 5
    ELSE IF c \in CompareChars THEN 6
    ELSE IF c = "'" THEN 7
    ELSE IF c = "\"" THEN 8
    ELSE IF c = "\\" THEN 9
    ELSE 10

Branch(s, a) == [next_state |-> s, action |-> a]


\* ------------------------------------------------------- NewLine actions
\* a slip: the count of the ended line is kept
NewLine_ZeroWS_Keep(l, c) == l

\* a slip: a blank line is given a Newline token of its own
NewLine_ZeroWS_Newline(l, c) == PushToken(ZeroNextWS(l), Tok("Newline"))

NewLine_ZeroWS(l, c) == ZeroNextWS(l)

NewLine_NextWS(l, c) == NextWSIncrement(l)

NewLine_BeginEof(l, c) ==
    PushToken(ProcessIndentation(ZeroNextWS(l)), Tok("Eof"))

NewLine_BeginValue(l, c) == BeginNewValue(ProcessIndentation(l), c)

NewLine_BeginString(l, c) == ClearValue(ProcessIndentation(l))

NewLine_Default(l, c) == PushToken(l, TokV("Char", c))

\* ------------------------------------------------------- MayBeId actions
\* the token_type of a keyword, "Id" for any other word
KeyWordOrId(word) ==
    IF word = <<"a", "n", "d">> THEN "And"
    ELSE IF word = <<"c", "l", "a", "s", "s">> THEN "Class"
    ELSE IF word = <<"d", "e", "f">> THEN "Def"
    ELSE IF word = <<"e", "l", "s", "e">> THEN "Else"
    ELSE IF word = <<"F", "a", "l", "s", "e">> THEN "False"
    ELSE IF word = <<"i", "f">> THEN "If"
    ELSE IF word = <<"N", "o", "n", "e">> THEN "None"
    ELSE IF word = <<"n", "o", "t">> THEN "Not"
    ELSE IF word = <<"o", "r">> THEN "Or"
    ELSE IF word = <<"p", "r", "i", "n", "t">> THEN "Print"
    ELSE IF word = <<"r", "e", "t", "u", "r", "n">> THEN "Return"
    ELSE IF word = <<"T", "r", "u", "e">> THEN "True"
    ELSE "Id"

\* a slip: every word is an identifier
PushKeyWordOrId_IdOnly(l) == MoveValue(PushToken(l, TokV("Id", GetValue(l))))

\* a keyword token leaves value_ alone, Id moves value_ into the token
PushKeyWordOrId(l) ==
    IF KeyWordOrId(GetValue(l)) = "Id"
    THEN MoveValue(PushToken(l, TokV("Id", GetValue(l))))
    ELSE PushToken(l, Tok(KeyWordOrId(GetValue(l))))

MayBeId_BeginNewLine(l, c) == PushToken(PushKeyWordOrId(l), Tok("Newline"))

MayBeId_PushId(l, c) == PushKeyWordOrId(l)

MayBeId_OnEof(l, c) ==
    PushToken(ProcessIndentation(
                  PushToken(PushKeyWordOrId(l), Tok("Newline"))),
              Tok("Eof"))

MayBeId_ContinueId(l, c) == PushChar(l, c)

MayBeId_BeginNewValue(l, c) == BeginNewValue(PushKeyWordOrId(l), c)

MayBeId_ClearPreviousValue(l, c) == ClearValue(PushKeyWordOrId(l))

MayBeId_Default(l, c) == PushToken(PushKeyWordOrId(l), TokV("Char", c))

\* -------------------------------------------------- MayBeCompare actions
\* GetValue()[0]
PrevChar(l) == GetValue(l)[1]

MayBeCompare_PushCompareInternal(l, c) ==
    ClearValue(
        IF PrevChar(l) = "=" THEN PushToken(l, Tok("Eq"))
        ELSE IF PrevChar(l) = "!" THEN PushToken(l, Tok("NotEq"))
        ELSE IF PrevChar(l) = "<" THEN PushToken(l, Tok("LessOrEq"))
        ELSE PushToken(l, Tok("GreaterOrEq")))

MayBeCompare_PushPrevChar(l, c) ==
    ClearValue(PushToken(l, TokV("Char", PrevChar(l))))

MayBeCompare_Default(l, c) ==
    PushToken(MayBeCompare_PushPrevChar(l, c), TokV("Char", c))

MayBeCompare_PushCompareToken(l, c) ==
    IF c = "=" THEN MayBeCompare_PushCompareInternal(l, c)
    ELSE MayBeCompare_Default(l, c)

MayBeCompare_BeginNewLine(l, c) ==
    PushToken(ClearValue(PushToken(l, TokV("Char", PrevChar(l)))),
              Tok("Newline"))

MayBeCompare_OnEof(l, c) ==
    PushToken(ProcessIndentation(
                  PushToken(PushToken(l, TokV("Char", PrevChar(l))),
                            Tok("Newline"))),
              Tok("Eof"))

MayBeCompare_BeginNewValue(l, c) ==
    BeginNewValue(PushToken(l, TokV("Char", PrevChar(l))), c)

MayBeCompare_ClearValue(l, c) ==
    ClearValue(PushToken(l, TokV("Char", PrevChar(l))))

\* --------------------------------------------------- NumberState actions
DigitValue(d) ==
    CASE d = "0" -> 0 [] d = "1" -> 1 [] d = "2" -> 2 [] d = "3" -> 3
      [] d = "4" -> 4 [] d = "5" -> 5 [] d = "6" -> 6 [] d = "7" -> 7
      [] d = "8" -> 8 [] d = "9" -> 9

\* std::from_chars on a run of decimal digits
RECURSIVE FromChars(_)
FromChars(digits) ==
    IF digits = <<>> THEN 0
    ELSE 10 * FromChars(SubSeq(digits, 1, Len(digits) - 1))
             + DigitValue(digits[Len(digits)])

NumberState_PushNumberToken(l, c) ==
    PushToken(l, TokV("Number", FromChars(GetValue(l))))

NumberState_BeginNewLine(l, c) ==
    PushToken(NumberState_PushNumberToken(l, c), Tok("Newline"))

NumberState_OnEof(l, c) ==
    PushToken(ProcessIndentation(
                  PushToken(NumberState_PushNumberToken(l, c), Tok("Newline"))),
              Tok("Eof"))

NumberState_BeginNewValue(l, c) ==
    BeginNewValue(NumberState_PushNumberToken(l, c), c)

NumberState_ContinueNumber(l, c) == PushChar(l, c)

NumberState_ClearValue(l, c) == ClearValue(l)

NumberState_Default(l, c) ==
    PushToken(NumberState_PushNumberToken(l, c), TokV("Char", c))

\* ------------------------------------------- string and comment actions
SingleQuotationMark_Error(l, c) == Throw(l)

SingleQuotationMark_PushToken(l, c) ==
    MoveValue(PushToken(l, TokV("String", GetValue(l))))

SingleQuotationMark_Default(l, c) == PushChar(l, c)

DoubleQuotationMark_Error(l, c) == Throw(l)

DoubleQuotationMark_PushToken(l, c) ==
    MoveValue(PushToken(l, TokV("String", GetValue(l))))

DoubleQuotationMark_Default(l, c) == PushChar(l, c)

\* ------------------------------------------------------ OutState actions
OutState_BeginNewLine(l, c) == PushToken(l, Tok("Newline"))

OutState_OnEof(l, c) ==
    PushToken(ProcessIndentation(PushToken(l, Tok("Newline"))), Tok("Eof"))

OutState_BeginNewValue(l, c) == BeginNewValue(l, c)

OutState_ClearValue(l, c) == ClearValue(l)

OutState_Default(l, c) == PushToken(l, TokV("Char", c))

\* --------------------------------------------------- transition tables
\* Branch::action is a function pointer; here it is the function's name.
DoAction(a, l, c) ==
    CASE a = "Nop" -> Nop(l, c)
      [] a = "NewLine::ZeroWS" -> NewLine_ZeroWS(l, c)
      [] a = "NewLine::NextWS" -> NewLine_NextWS(l, c)
      [] a = "NewLine::BeginEof" -> NewLine_BeginEof(l, c)
      [] a = "NewLine::BeginValue" -> NewLine_BeginValue(l, c)
      [] a = "NewLine::BeginString" -> NewLine_BeginString(l, c)
      [] a = "NewLine::Default" -> NewLine_Default(l, c)
      [] a = "MayBeId::BeginNewLine" -> MayBeId_BeginNewLine(l, c)
      [] a = "MayBeId::PushId" -> MayBeId_PushId(l, c)
      [] a = "MayBeId::OnEof" -> MayBeId_OnEof(l, c)
      [] a = "MayBeId::ContinueId" -> MayBeId_ContinueId(l, c)
      [] a = "MayBeId::BeginNewValue" -> MayBeId_BeginNewValue(l, c)
      [] a = "MayBeId::ClearPreviousValue" -> MayBeId_ClearPreviousValue(l, c)
      [] a = "MayBeId::Default" -> MayBeId_Default(l, c)
      [] a = "MayBeCompare::BeginNewLine" -> MayBeCompare_BeginNewLine(l, c)
      [] a = "MayBeCompare::PushPrevChar" -> MayBeCompare_PushPrevChar(l, c)
      [] a = "MayBeCompare::OnEof" -> MayBeCompare_OnEof(l, c)
      [] a = "MayBeCompare::BeginNewValue" -> MayBeCompare_BeginNewValue(l, c)
      [] a = "MayBeCompare::PushCompareToken" -> MayBeCompare_PushCompareToken(l, c)
      [] a = "MayBeCompare::ClearValue" -> MayBeCompare_ClearValue(l, c)
      [] a = "MayBeCompare::Default" -> MayBeCompare_Default(l, c)
      [] a = "NumberState::BeginNewLine" -> NumberState_BeginNewLine(l, c)
      [] a = "NumberState::PushNumberToken" -> NumberState_PushNumberToken(l, c)
      [] a = "NumberState::OnEof" -> NumberState_OnEof(l, c)
      [] a = "NumberState::BeginNewValue" -> NumberState_BeginNewValue(l, c)
      [] a = "NumberState::ContinueNumber" -> NumberState_ContinueNumber(l, c)
      [] a = "NumberState::ClearValue" -> NumberState_ClearValue(l, c)
      [] a = "NumberState::Default" -> NumberState_Default(l, c)
      [] a = "SingleQuotationMark::Error" -> SingleQuotationMark_Error(l, c)
      [] a = "SingleQuotationMark::PushToken" -> SingleQuotationMark_PushToken(l, c)
      [] a = "SingleQuotationMark::Default" -> SingleQuotationMark_Default(l, c)
      [] a = "DoubleQuotationMark::Error" -> DoubleQuotationMark_Error(l, c)
      [] a = "DoubleQuotationMark::PushToken" -> DoubleQuotationMark_PushToken(l, c)
      [] a = "DoubleQuotationMark::Default" -> DoubleQuotationMark_Default(l, c)
      [] a = "OutState::BeginNewLine" -> OutState_BeginNewLine(l, c)
      [] a = "OutState::OnEof" -> OutState_OnEof(l, c)
      [] a = "OutState::BeginNewValue" -> OutState_BeginNewValue(l, c)
      [] a = "OutState::ClearValue" -> OutState_ClearValue(l, c)
      [] a = "OutState::Default" -> OutState_Default(l, c)

\* b.action(l, c); l->SetState(b.next_state): a throwing action leaves the
\* state as it was
FeedCharInternal(l, transitions, c) ==
    SetState(DoAction(transitions[SymbolIndex(c) + 1].action, l, c),
             transitions[SymbolIndex(c) + 1].next_state)

NewLine_transitions_ ==
    << Branch("NewLine", "NewLine::ZeroWS"),
       Branch("NewLine", "NewLine::NextWS"),
       Branch("LineComment", "NewLine::ZeroWS"),
       Branch("EofState", "NewLine::BeginEof"),
       Branch("MayBeId", "NewLine::BeginValue"),
       Branch("NumberState", "NewLine::BeginValue"),
       Branch("MayBeCompare", "NewLine::BeginValue"),
       Branch("SingleQuotationMark", "NewLine::BeginString"),
       Branch("DoubleQuotationMark", "NewLine::BeginString"),
       Branch("OutState", "NewLine::Default"),
       Branch("OutState", "NewLine::Default") >>

MayBeId_transitions_ ==
    << Branch("NewLine", "MayBeId::BeginNewLine"),
       Branch("OutState", "MayBeId::PushId"),
       Branch("TrailingComment", "MayBeId::PushId"),
       Branch("EofState", "MayBeId::OnEof"),
       Branch("MayBeId", "MayBeId::ContinueId"),
       Branch("MayBeId", "MayBeId::ContinueId"),
       Branch("MayBeCompare", "MayBeId::BeginNewValue"),
       Branch("SingleQuotationMark", "MayBeId::ClearPreviousValue"),
       Branch("DoubleQuotationMark", "MayBeId::ClearPreviousValue"),
       Branch("OutState", "MayBeId::Default"),
       Branch("OutState", "MayBeId::Default") >>

MayBeCompare_transitions_ ==
    << Branch("NewLine", "MayBeCompare::BeginNewLine"),
       Branch("OutState", "MayBeCompare::PushPrevChar"),
       Branch("TrailingComment", "MayBeCompare::PushPrevChar"),
       Branch("EofState", "MayBeCompare::OnEof"),
       Branch("MayBeId", "MayBeCompare::BeginNewValue"),
       Branch("NumberState", "MayBeCompare::BeginNewValue"),
       Branch("OutState", "MayBeCompare::PushCompareToken"),
       Branch("SingleQuotationMark", "MayBeCompare::ClearValue"),
       Branch("DoubleQuotationMark", "MayBeCompare::ClearValue"),
       Branch("OutState", "MayBeCompare::Default"),
       Branch("OutState", "MayBeCompare::Default") >>

NumberState_transitions_ ==
    << Branch("NewLine", "NumberState::BeginNewLine"),
       Branch("OutState", "NumberState::PushNumberToken"),
       Branch("TrailingComment", "NumberState::PushNumberToken"),
       Branch("EofState", "NumberState::OnEof"),
       Branch("MayBeId", "NumberState::BeginNewValue"),
       Branch("NumberState", "NumberState::ContinueNumber"),
       Branch("MayBeCompare", "NumberState::BeginNewValue"),
       Branch("SingleQuotationMark", "NumberState::ClearValue"),
       Branch("DoubleQuotationMark", "NumberState::ClearValue"),
       Branch("OutState", "NumberState::Default"),
       Branch("OutState", "NumberState::Default") >>

SingleQuotationMark_transitions_ ==
    << Branch("EofState", "SingleQuotationMark::Error"),
       Branch("SingleQuotationMark", "SingleQuotationMark::Default"),
       Branch("SingleQuotationMark", "SingleQuotationMark::Default"),
       Branch("EofState", "SingleQuotationMark::Error"),
       Branch("SingleQuotationMark", "SingleQuotationMark::Default"),
       Branch("SingleQuotationMark", "SingleQuotationMark::Default"),
       Branch("SingleQuotationMark", "SingleQuotationMark::Default"),
       Branch("OutState", "SingleQuotationMark::PushToken"),
       Branch("SingleQuotationMark", "SingleQuotationMark::Default"),
       Branch("SingleQuotationMarkEscape", "Nop"),
       Branch("SingleQuotationMark", "SingleQuotationMark::Default") >>

DoubleQuotationMark_transitions_ ==
    << Branch("EofState", "DoubleQuotationMark::Error"),
       Branch("DoubleQuotationMark", "DoubleQuotationMark::Default"),
       Branch("DoubleQuotationMark", "DoubleQuotationMark::Default"),
       Branch("EofState", "DoubleQuotationMark::Error"),
       Branch("DoubleQuotationMark", "DoubleQuotationMark::Default"),
       Branch("DoubleQuotationMark", "DoubleQuotationMark::Default"),
       Branch("DoubleQuotationMark", "DoubleQuotationMark::Default"),
       Branch("DoubleQuotationMark", "DoubleQuotationMark::Default"),
       Branch("OutState", "DoubleQuotationMark::PushToken"),
       Branch("DoubleQuotationMarkEscape", "Nop"),
       Branch("DoubleQuotationMark", "DoubleQuotationMark::Default") >>

OutState_transitions_ ==
    << Branch("NewLine", "OutState::BeginNewLine"),
       Branch("OutState", "Nop"),
       Branch("TrailingComment", "Nop"),
       Branch("EofState", "OutState::OnEof"),
       Branch("MayBeId", "OutState::BeginNewValue"),
       Branch("NumberState", "OutState::BeginNewValue"),
       Branch("MayBeCompare", "OutState::BeginNewValue"),
       Branch("SingleQuotationMark", "OutState::ClearValue"),
       Branch("DoubleQuotationMark", "OutState::ClearValue"),
       Branch("OutState", "OutState::Default"),
       Branch("OutState", "OutState::Default") >>

\* ------------------------------------------------- the states' FeedChar
NewLine_FeedChar(l, c) == FeedCharInternal(l, NewLine_transitions_, c)

MayBeId_FeedChar(l, c) == FeedCharInternal(l, MayBeId_transitions_, c)

MayBeCompare_FeedChar(l, c) == FeedCharInternal(l, MayBeCompare_transitions_, c)

NumberState_FeedChar(l, c) == FeedCharInternal(l, NumberState_transitions_, c)

SingleQuotationMark_FeedChar(l, c) ==
    FeedCharInternal(l, SingleQuotationMark_transitions_, c)

DoubleQuotationMark_FeedChar(l, c) ==
    FeedCharInternal(l, DoubleQuotationMark_transitions_, c)

\* a slip: the byte after a backslash is taken as it is
EscapedChar_Verbatim(c) == c

\* the byte appended after a backslash
EscapedChar(c) == IF c = "n" THEN "\n" ELSE IF c = "t" THEN "\t" ELSE c

SingleQuotationMarkEscape_FeedChar(l, c) ==
    SetState(PushChar(l, EscapedChar(c)), "SingleQuotationMark")

DoubleQuotationMarkEscape_FeedChar(l, c) ==
    SetState(PushChar(l, EscapedChar(c)), "DoubleQuotationMark")

\* a slip: the newline that ends a trailing comment is swallowed with it
TrailingComment_FeedChar_Silent(l, c) ==
    IF c = "\n" THEN SetState(l, "NewLine")
    ELSE IF c = EOFC
    THEN SetState(PushToken(ProcessIndentation(PushToken(l, Tok("Newline"))),
                            Tok("Eof")),
                  "EofState")
    ELSE l

TrailingComment_FeedChar(l, c) ==
    IF c = "\n" THEN SetState(PushToken(l, Tok("Newline")), "NewLine")
    ELSE IF c = EOFC
    THEN SetState(PushToken(ProcessIndentation(PushToken(l, Tok("Newline"))),
                            Tok("Eof")),
                  "EofState")
    ELSE l

LineComment_FeedChar(l, c) ==
    IF c = "\n" THEN SetState(l, "NewLine")
    ELSE IF c = EOFC
    THEN SetState(PushToken(ProcessIndentation(l), Tok("Eof")), "EofState")
    ELSE l

OutState_FeedChar(l, c) == FeedCharInternal(l, OutState_transitions_, c)

\* a slip: the terminal state emits a line end
EofState_FeedChar_Newline(l, c) == PushToken(l, Tok("Newline"))

EofState_FeedChar(l, c) == PushToken(l, Tok("Eof"))

\* state_->FeedChar(this, c): the virtual call
FeedChar(l, c) ==
    CASE l.state_ = "NewLine" -> NewLine_FeedChar(l, c)
      [] l.state_ = "MayBeId" -> MayBeId_FeedChar(l, c)
      [] l.state_ = "MayBeCompare" -> MayBeCompare_FeedChar(l, c)
      [] l.state_ = "NumberState" -> NumberState_FeedChar(l, c)
      [] l.state_ = "SingleQuotationMark" -> SingleQuotationMark_FeedChar(l, c)
      [] l.state_ = "SingleQuotationMarkEscape" ->
             SingleQuotationMarkEscape_FeedChar(l, c)
      [] l.state_ = "DoubleQuotationMark" -> DoubleQuotationMark_FeedChar(l, c)
      [] l.state_ = "DoubleQuotationMarkEscape" ->
             DoubleQuotationMarkEscape_FeedChar(l, c)
      [] l.state_ = "TrailingComment" -> TrailingComment_FeedChar(l, c)
      [] l.state_ = "LineComment" -> LineComment_FeedChar(l, c)
      [] l.state_ = "OutState" -> OutState_FeedChar(l, c)
      [] l.state_ = "EofState" -> EofState_FeedChar(l, c)

\* ---------------------------------------------------------- observations
StringStates == {"SingleQuotationMark", "SingleQuotationMarkEscape",
                 "DoubleQuotationMark", "DoubleQuotationMarkEscape"}
EscapeStates == {"SingleQuotationMarkEscape", "DoubleQuotationMarkEscape"}
StructuralTokens == {"Newline", "Indent", "Dedent", "Eof"}

NoFeed == [st |-> "none", c |-> "", cur |-> 0, next |-> 0, prev |-> "",
           ws |-> 0, had_tokens |-> FALSE, out |-> <<>>, thrown |-> FALSE]

\* what one State::FeedChar call was given and what it pushed
Observe(l, c, r) ==
    [st |-> l.state_, c |-> c,
     cur |-> l.current_indent_ws_, next |-> l.next_indent_ws_,
     prev |-> IF l.value_ = <<>> THEN "" ELSE l.value_[1],
     ws |-> line_ws, had_tokens |-> line_tokens,
     out |-> SubSeq(r.tokens_buffer_, Len(l.tokens_buffer_) + 1,
                    Len(r.tokens_buffer_)),
     thrown |-> r.thrown]

\* the byte ends the physical line (a newline after a backslash inside a
\* literal belongs to the literal)
EndsLine(st, c) == c = "\n" /\ st \notin EscapeStates

IndentDelta(token) ==
    IF token.type = "Indent" THEN 1
    ELSE IF token.type = "Dedent" THEN -1 ELSE 0

NoEnding == [reached |-> FALSE, out |-> <<>>, thrown |-> FALSE,
             out_nl |-> <<>>, thrown_nl |-> FALSE]

\* the tokens r holds beyond those of l
Pushed(l, r) ==
    SubSeq(r.tokens_buffer_, Len(l.tokens_buffer_) + 1, Len(r.tokens_buffer_))

\* the stream ends with the lexer at l and r is what FeedChar makes of it;
\* had the stream held one more newline, the lexer would have been fed the
\* newline and then end-of-stream
AtEnd(l, r) ==
    [reached |-> TRUE, out |-> Pushed(l, r), thrown |-> r.thrown,
     out_nl |-> Pushed(l, FeedChar(FeedChar(l, "\n"), EOFC)),
     thrown_nl |-> FeedChar(FeedChar(l, "\n"), EOFC).thrown]

Track(l, c, r) ==
    /\ ending' = IF c = EOFC /\ ~eos THEN AtEnd(l, r) ELSE ending
    /\ fed' = Observe(l, c, r)
    /\ line_ws' = IF EndsLine(l.state_, c) THEN 0
                  ELSE IF l.state_ = "NewLine" /\ c \in Spaces
                       THEN line_ws + 1 ELSE line_ws
    /\ line_tokens' =
           IF EndsLine(l.state_, c) THEN FALSE
           ELSE \/ line_tokens
                \/ \E i \in Len(l.tokens_buffer_) + 1 .. Len(r.tokens_buffer_) :
                       r.tokens_buffer_[i].type \notin StructuralTokens
    /\ last_line' = IF ~EndsLine(l.state_, c) THEN last_line
                    ELSE IF l.state_ = "NewLine" THEN "blank"
                    ELSE IF l.state_ = "LineComment" THEN "comment"
                    ELSE "tokens"
    /\ odd_line' = \/ odd_line
                   \/ /\ l.state_ = "NewLine"
                      /\ SymbolIndex(c) \in 4..10
                      /\ line_ws % INDENT_SIZE_WS # 0
    /\ lit_break' = IF l.state_ \in StringStates /\ c \in {"\n", EOFC}
                    THEN TRUE
                    ELSE IF l.state_ \notin StringStates
                            /\ r.state_ \in StringStates
                         THEN FALSE ELSE lit_break

\* --------------------------------------------------------------- the Lexer
\* no text fixed in advance: the stream yields its bytes one by one
NoText == [bytes |-> <<>>, kind |-> "none", from |-> 0, part |-> <<>>]

NoExpect == [call |-> "none", kind |-> "", value |-> <<>>,
             result |-> "", payload |-> <<>>]

InitLexer ==
    /\ state_ = "NewLine"
    /\ value_ = <<>>
    /\ tokens_buffer_ = <<>>
    /\ next_indent_ws_ = 0
    /\ current_indent_ws_ = 0
    /\ eos = FALSE
    /\ nread = 0
    /\ pc = "new"
    /\ caller = "ctor"
    /\ queue_size0 = 0
    /\ ret = NoToken
    /\ fed = NoFeed
    /\ line_ws = 0
    /\ line_tokens = FALSE
    /\ last_line = "none"
    /\ odd_line = FALSE
    /\ lit_break = FALSE
    /\ delivered_bal = 0
    /\ eof_returns = 0
    /\ lexers = 1
    /\ expect = NoExpect
    /\ ending = NoEnding

\* no program is being executed
NoProgram ==
    /\ prog = <<>>
    /\ ndebug = FALSE
    /\ stack = <<>>
    /\ closures = <<>>
    /\ heap = <<>>
    /\ mode = "off"
    /\ val = [addr |-> 0, own |-> FALSE]
    /\ log = <<>>
    /\ output = <<>>

Init == InitLexer /\ text = NoText /\ NoProgram

\* tokens_buffer_.front() on an empty queue reads storage that holds no
\* token: whatever was there, for instance the token just popped
StaleFront(q) == {Garbage} \cup {q[i] : i \in 1..Len(q)}

\* the end of NextToken: tokens_buffer_.pop(); return tokens_buffer_.front()
PopAndReturn(q) ==
    IF Len(q) >= 2
    THEN /\ tokens_buffer_' = Tail(q)
         /\ ret' = q[2]
         /\ pc' = "idle"
         /\ delivered_bal' = delivered_bal + IndentDelta(q[2])
         /\ eof_returns' = IF ret.type = "Eof" /\ eof_returns < MaxEofReturns
                           THEN eof_returns + 1 ELSE eof_returns
    ELSE /\ tokens_buffer_' = <<>>
         /\ ret' \in StaleFront(q)
         /\ pc' = "ub"
         /\ UNCHANGED <<delivered_bal, eof_returns>>

\* Lexer::Lexer: the member initialisers are Init; the body calls FeedQueue
Lexer_Lexer ==
    /\ pc = "new"
    /\ pc' = "feed"
    /\ caller' = "ctor"
    /\ queue_size0' = Len(tokens_buffer_)
    /\ expect' = NoExpect
    /\ UNCHANGED <<state_, value_, tokens_buffer_, next_indent_ws_,
                   current_indent_ws_, eos, nread, ret, fed, line_ws,
                   line_tokens, last_line, odd_line, lit_break,
                   delivered_bal, eof_returns, lexers, text, ending, evars>>

\* Lexer::NextToken up to its call of FeedQueue, or all of it when two
\* tokens are queued
NextToken ==
    /\ pc = "idle"
    /\ IF Len(tokens_buffer_) < 2
       THEN /\ pc' = "feed"
            /\ caller' = "next"
            /\ queue_size0' = Len(tokens_buffer_)
            /\ UNCHANGED <<tokens_buffer_, ret, delivered_bal, eof_returns>>
       ELSE /\ PopAndReturn(tokens_buffer_)
            /\ UNCHANGED <<caller, queue_size0>>
    /\ expect' = NoExpect
    /\ UNCHANGED <<state_, value_, next_indent_ws_, current_indent_ws_,
                   eos, nread, fed, line_ws, line_tokens, last_line,
                   odd_line, lit_break, lexers, text, ending, evars>>

\* the rest of one iteration of the loop of Lexer::FeedQueue once
\* state_->FeedChar(this, c) has taken the lexer from l to r, and, when the
\* loop ends, the rest of the function that called FeedQueue
AfterFeedChar(l, c, r) ==
    /\ state_' = r.state_
    /\ value_' = r.value_
    /\ next_indent_ws_' = r.next_indent_ws_
    /\ current_indent_ws_' = r.current_indent_ws_
    /\ Track(l, c, r)
    /\ UNCHANGED <<caller, queue_size0, lexers, text, evars>>
    /\ expect' = NoExpect
    /\ IF r.thrown
       THEN /\ pc' = "error"
            /\ tokens_buffer_' = r.tokens_buffer_
            /\ UNCHANGED <<ret, delivered_bal, eof_returns>>
       ELSE IF c # EOFC /\ ~(queue_size0 < Len(r.tokens_buffer_))
       THEN /\ pc' = "feed"
            /\ tokens_buffer_' = r.tokens_buffer_
            /\ UNCHANGED <<ret, delivered_bal, eof_returns>>
       ELSE IF caller = "ctor"
       THEN /\ pc' = "idle"
            /\ tokens_buffer_' = r.tokens_buffer_
            /\ delivered_bal' =
                   IF r.tokens_buffer_ = <<>> THEN delivered_bal
                   ELSE delivered_bal + IndentDelta(Head(r.tokens_buffer_))
            /\ UNCHANGED <<ret, eof_returns>>
       ELSE PopAndReturn(r.tokens_buffer_)

\* one iteration of the loop of Lexer::FeedQueue on byte c
FeedQueueIteration(c) ==
    /\ Len(FeedChar(Self, c).value_) <= MaxValue
    /\ AfterFeedChar(Self, c, FeedChar(Self, c))

\* the stream yields one more byte
FeedQueue_Char ==
    /\ pc = "feed"
    /\ ~eos
    /\ nread < MaxInput
    /\ \E c \in Chars : FeedQueueIteration(c)
    /\ nread' = nread + 1
    /\ UNCHANGED eos

\* the stream is exhausted: FillBuffer reads nothing, gcount() is 0
FeedQueue_Eof ==
    /\ pc = "feed"
    /\ FeedQueueIteration(EOFC)
    /\ eos' = TRUE
    /\ UNCHANGED nread

Next == Lexer_Lexer \/ NextToken \/ FeedQueue_Char \/ FeedQueue_Eof

Spec == Init /\ [][Next]_vars

\* The caller drops the lexer it has, wherever it got to (mid-stream, at
\* Eof, or after LexerError), and constructs another one on a fresh stream.
\* The member initialisers of Lexer::Lexer set the object's own members;
\* the two counters are static members of State, defined once for the
\* process, and no constructor assigns them.
Lexer_New ==
    /\ pc \in {"idle", "error"}
    /\ lexers < MaxLexers
    /\ lexers' = lexers + 1
    /\ state_' = "NewLine"
    /\ value_' = <<>>
    /\ tokens_buffer_' = <<>>
    /\ eos' = FALSE
    /\ pc' = "new"
    /\ caller' = "ctor"
    /\ queue_size0' = 0
    /\ ret' = NoToken
    /\ fed' = NoFeed
    /\ line_ws' = 0
    /\ line_tokens' = FALSE
    /\ last_line' = "none"
    /\ odd_line' = FALSE
    /\ lit_break' = FALSE
    /\ delivered_bal' = 0
    /\ eof_returns' = 0
    /\ expect' = NoExpect
    /\ ending' = NoEnding
    /\ UNCHANGED <<next_indent_ws_, current_indent_ws_, nread, text, evars>>

NextInstances == Next \/ Lexer_New

\* a process that constructs lexers one after the other
SpecInstances == Init /\ [][NextInstances]_vars

\* ------------------------------------------------------------ Lexer::Expect
\* the token types T and the values Expect is called with
ExpectTypes == {"Id", "Number", "Char", "Newline", "Eof"}

ExpectValues(T) ==
    CASE T = "Id" -> {<<"n">>, <<"n", "n">>}
      [] T = "Number" -> {1, 2}
      [] T = "Char" -> {"(", "="}
      [] OTHER -> {}

\* CurrentToken() of an empty queue is front() of an empty std::queue:
\* the reference names storage that holds no token
CurrentTokenRead ==
    IF tokens_buffer_ # <<>> THEN {Head(tokens_buffer_)}
    ELSE {Garbage} \cup {Tok(T) : T \in {"Newline", "Eof"}}
             \cup UNION {{TokV(T, v) : v \in ExpectValues(T)} :
                             T \in {"Id", "Number", "Char"}}

\* Expect and its caller do not touch the lexer
ExpectLeaves ==
    UNCHANGED <<state_, value_, tokens_buffer_, next_indent_ws_,
                current_indent_ws_, eos, nread, pc, caller, queue_size0, ret,
                fed, line_ws, line_tokens, last_line, odd_line, lit_break,
                delivered_bal, eof_returns, lexers, text, ending, evars>>

\* template <typename T> const T& Expect() const
Expect_T ==
    /\ pc = "idle"
    /\ \E T \in ExpectTypes, tok \in CurrentTokenRead :
           expect' = [call |-> "Expect<T>()", kind |-> T, value |-> <<>>,
                      result |-> IF tok.type = T THEN "returned" ELSE "thrown",
                      payload |-> IF tok.type = T THEN tok.value ELSE <<>>]
    /\ ExpectLeaves

\* template <typename T, typename U> void Expect(const U& value) const
Expect_T_value ==
    /\ pc = "idle"
    /\ \E T \in ExpectTypes, tok \in CurrentTokenRead :
         \E v \in ExpectValues(T) :
           expect' = [call |-> "Expect<T>(value)", kind |-> T, value |-> v,
                      result |-> IF tok.type = T
                                 THEN IF tok.value = v THEN "returned"
                                      ELSE "thrown"
                                 ELSE "thrown",
                      payload |-> <<>>]
    /\ ExpectLeaves

NextExpect == Next \/ Expect_T \/ Expect_T_value

\* a caller that also inspects the current token with Expect
SpecExpect == Init /\ [][NextExpect]_vars

\* ------------------------------------------------- texts fixed in advance
\* A stream whose bytes are fixed when the lexer is constructed: bytes is the
\* whole stream, part the word or literal body placed in it, from the index
\* of the first byte of the word or of the literal's opening quote.
KeyWords ==
    {<<"a", "n", "d">>,
     <<"c", "l", "a", "s", "s">>,
     <<"d", "e", "f">>,
     <<"e", "l", "s", "e">>,
     <<"F", "a", "l", "s", "e">>,
     <<"i", "f">>,
     <<"N", "o", "n", "e">>,
     <<"n", "o", "t">>,
     <<"o", "r">>,
     <<"p", "r", "i", "n", "t">>,
     <<"r", "e", "t", "u", "r", "n">>,
     <<"T", "r", "u", "e">>}

OtherWords ==
    {<<"n">>,
     <<"_">>,
     <<"i">>,
     <<"I", "f">>,
     <<"i", "f", "f">>,
     <<"a", "n">>,
     <<"a", "n", "d", "y">>,
     <<"A", "N", "D">>,
     <<"n", "o", "n", "e">>,
     <<"t", "r", "u", "e">>,
     <<"_", "i", "f">>,
     <<"i", "f", "_">>,
     <<"i", "f", "1">>,
     <<"n", "1">>,
     <<"x", "_", "y">>,
     <<"R", "e", "t", "u", "r", "n">>,
     <<"r", "e", "t", "u", "r", "n", "s">>,
     <<"o">>,
     <<"e", "l", "i", "f">>}

\* what stands before a word (never a letter, digit or underscore at its end)
\* and the byte after it (none: the stream ends with the word)
BeforeWord == {<<>>, <<"(">>, <<"=">>, <<"1", " ">>, <<" ", " ">>,
               <<"'", "'">>, <<"#", "\n">>}
AfterWord == {<<>>, <<"\n">>, <<" ">>, <<"#">>, <<"(">>, <<"=">>, <<"'">>,
              <<"\"">>, <<"\\">>}

WordTexts ==
    {[bytes |-> pre \o wd \o post, kind |-> "word", from |-> Len(pre) + 1,
      part |-> wd] :
        pre \in BeforeWord, wd \in KeyWords \cup OtherWords, post \in AfterWord}

\* the quote of the other kind
OtherQuote(q) == IF q = "'" THEN "\"" ELSE "'"

\* what may stand between the quotes q of a literal: a byte other than q,
\* backslash and newline, or a backslash and the byte after it
PlainBytes(q) == {"n", "t", "#", " ", OtherQuote(q)}
EscapedBytes(q) == {"n", "t", "a", "\\", "\n", q, OtherQuote(q)}
Items(q) == {<<b>> : b \in PlainBytes(q)}
                \cup {<<"\\", x>> : x \in EscapedBytes(q)}

RECURSIVE Bodies(_, _)
Bodies(q, n) ==
    IF n = 0 THEN {<<>>}
    ELSE Bodies(q, n - 1)
             \cup {b \o it : b \in Bodies(q, n - 1), it \in Items(q)}

BeforeLiteral == {<<>>, <<"n">>, <<"1">>, <<"=">>, <<"(">>}
AfterLiteral == {<<>>, <<"n">>}

LiteralTexts(q) ==
    {[bytes |-> pre \o <<q>> \o b \o <<q>> \o post, kind |-> "string",
      from |-> Len(pre) + 1, part |-> b] :
        pre \in BeforeLiteral, b \in Bodies(q, MaxItems),
        post \in AfterLiteral}

StringTexts == LiteralTexts("'") \cup LiteralTexts("\"")

Texts == WordTexts \cup StringTexts

InitText == InitLexer /\ text \in Texts /\ NoProgram

\* one iteration of the loop of Lexer::FeedQueue on the next byte of the text
FeedQueue_Text ==
    /\ pc = "feed"
    /\ nread < Len(text.bytes)
    /\ AfterFeedChar(Self, text.bytes[nread + 1],
                     FeedChar(Self, text.bytes[nread + 1]))
    /\ nread' = nread + 1
    /\ UNCHANGED eos

\* the text is read to its end: gcount() is 0
FeedQueue_TextEof ==
    /\ pc = "feed"
    /\ nread = Len(text.bytes)
    /\ AfterFeedChar(Self, EOFC, FeedChar(Self, EOFC))
    /\ eos' = TRUE
    /\ UNCHANGED nread

NextText == Lexer_Lexer \/ NextToken \/ FeedQueue_Text \/ FeedQueue_TextEof

\* a lexer run over one of the texts
SpecText == InitText /\ [][NextText]_vars

\* ==================================================================
\* The evaluator: statement.cpp and runtime.cpp
\* ==================================================================

\* ------------------------------------------------------------ ObjectHolder
\* A holder is a shared_ptr<Object>: addr is the object it points to (0: the
\* empty holder, None), own tells the owning pointer ObjectHolder::Own makes
\* from the pointer with a no-op deleter ObjectHolder::Share makes.  A copy
\* of a holder shares its control block, so it owns iff the original does.
ObjectHolder_None == [addr |-> 0, own |-> FALSE]
ObjectHolder_Own(a) == [addr |-> a, own |-> TRUE]
ObjectHolder_Share(a) == [addr |-> a, own |-> FALSE]

\* --------------------------------------------------------------- AST nodes
VariableValue(ids) == [op |-> "VariableValue", dotted_ids_ |-> ids]
Assignment(var, rv) ==
    [op |-> "Assignment", var_name_ |-> var, right_value_ |-> rv]
FieldAssignment(object, field_name, rv) ==
    [op |-> "FieldAssignment", object_ |-> object, field_name_ |-> field_name,
     right_value_ |-> rv]
NewInstance(cls, args) == [op |-> "NewInstance", class_ |-> cls, args_ |-> args]
MethodCall(object, method, args) ==
    [op |-> "MethodCall", object_ |-> object, method_name_ |-> method,
     args_ |-> args]
Add(lhs, rhs) == [op |-> "Add", lhs_ |-> lhs, rhs_ |-> rhs]
Compound(args) == [op |-> "Compound", args_ |-> args]
Return(statement) == [op |-> "Return", statement_ |-> statement]
MethodBody(body) == [op |-> "MethodBody", body_ |-> body]
\* ValueStatement<T>: a constant, which holds its value, a T
ValueStatement(kind, number, string, bool) ==
    [op |-> "ValueStatement", kind |-> kind, number |-> number,
     string |-> string, bool |-> bool]
NumericConst(n) == ValueStatement("Number", n, <<>>, FALSE)
StringConst(str) == ValueStatement("String", 0, str, FALSE)
BoolConst(b) == ValueStatement("Bool", 0, <<>>, b)
None == [op |-> "None"]
Sub(lhs, rhs) == [op |-> "Sub", lhs_ |-> lhs, rhs_ |-> rhs]
Mult(lhs, rhs) == [op |-> "Mult", lhs_ |-> lhs, rhs_ |-> rhs]
Div(lhs, rhs) == [op |-> "Div", lhs_ |-> lhs, rhs_ |-> rhs]
Or(lhs, rhs) == [op |-> "Or", lhs_ |-> lhs, rhs_ |-> rhs]
And(lhs, rhs) == [op |-> "And", lhs_ |-> lhs, rhs_ |-> rhs]
Not(argument) == [op |-> "Not", argument_ |-> argument]
Comparison(cmp, lhs, rhs) ==
    [op |-> "Comparison", comparator_ |-> cmp, lhs_ |-> lhs, rhs_ |-> rhs]
\* the n-th class of that name the program defines
ClassDefinition(cls, n) ==
    [op |-> "ClassDefinition", class_definition_ |-> [name_ |-> cls, n |-> n]]
Print_Statement(args) == [op |-> "Print", args_ |-> args]

ADD_METHOD == "__add__"
INIT_METHOD == "__init__"

\* ------------------------------------------------------------ the classes
\* runtime::Method and runtime::Class of the executed programs:
\*   class Base:   def hello(): return self
\*                 def me(p): return p
\*   class A(Base):
\*     def __init__(p): self.f = p
\*     def me(): return self
\*     def none(): x = self
\*     def early(p): return p ; self.f = self
\*     def outer(p): x = self.early(p) ; self.f = x ; return x
\*     def keep(o): o.f = self
\*     def pair(p, q): return q
\*     def __add__(o): self.f = o
\*   class B:      def id(p): return p
\*   class P:
\*     def __eq__(o): return True
\*     def __lt__(o): return False
\*     def __add__(o): return o
\*     def __str__(): return 'a'
\*     def set(p): x = p ; self.f = p ; return x
\*     def dup(p, p): return p
\*     def own(self): return self
\*   class Q:      def __eq__(o): return 1
\*                 def __lt__(o): x = o
\*   class R:      def __eq__(o): return None == None
\*   class S:      def __str__(): x = 1
Method(params, body) == [formal_params |-> params, body |-> MethodBody(body)]

Self_ == VariableValue(<<"self">>)
Var(name) == VariableValue(<<name>>)

Classes ==
    [Base |-> [parent_ |-> "",
               methods_ |-> [hello |-> Method(<<>>, Return(Self_)),
                             me |-> Method(<<"p">>, Return(Var("p")))]],
     A |-> [parent_ |-> "Base",
            methods_ |->
              [__init__ |-> Method(<<"p">>,
                                   FieldAssignment(Self_, "f", Var("p"))),
               me |-> Method(<<>>, Return(Self_)),
               none |-> Method(<<>>, Assignment("x", Self_)),
               early |-> Method(<<"p">>,
                   Compound(<<Return(Var("p")),
                              FieldAssignment(Self_, "f", Self_)>>)),
               outer |-> Method(<<"p">>,
                   Compound(<<Assignment("x",
                                  MethodCall(Self_, "early", <<Var("p")>>)),
                              FieldAssignment(Self_, "f", Var("x")),
                              Return(Var("x"))>>)),
               keep |-> Method(<<"o">>, FieldAssignment(Var("o"), "f", Self_)),
               pair |-> Method(<<"p", "q">>, Return(Var("q"))),
               __add__ |-> Method(<<"o">>,
                                  FieldAssignment(Self_, "f", Var("o")))]],
     B |-> [parent_ |-> "",
            methods_ |-> [id |-> Method(<<"p">>, Return(Var("p")))]],
     P |-> [parent_ |-> "",
            methods_ |->
              [__eq__ |-> Method(<<"o">>, Return(BoolConst(TRUE))),
               __lt__ |-> Method(<<"o">>, Return(BoolConst(FALSE))),
               __add__ |-> Method(<<"o">>, Return(Var("o"))),
               __str__ |-> Method(<<>>, Return(StringConst(<<"a">>))),
               set |-> Method(<<"p">>,
                   Compound(<<Assignment("x", Var("p")),
                              FieldAssignment(Self_, "f", Var("p")),
                              Return(Var("x"))>>)),
               dup |-> Method(<<"p", "p">>, Return(Var("p"))),
               own |-> Method(<<"self">>, Return(Self_))]],
     Q |-> [parent_ |-> "",
            methods_ |->
              [__eq__ |-> Method(<<"o">>, Return(NumericConst(1))),
               __lt__ |-> Method(<<"o">>, Assignment("x", Var("o")))]],
     R |-> [parent_ |-> "",
            methods_ |->
              [__eq__ |-> Method(<<"o">>,
                                 Return(Comparison("Equal", None, None)))]],
     S |-> [parent_ |-> "",
            methods_ |->
              [__str__ |-> Method(<<>>, Assignment("x", NumericConst(1)))]]]

\* Class::GetMethod finds a method of that name in the class or an ancestor
RECURSIVE Class_HasMethodNamed(_, _)
Class_HasMethodNamed(cls, name) ==
    \/ name \in DOMAIN Classes[cls].methods_
    \/ /\ Classes[cls].parent_ # ""
       /\ Class_HasMethodNamed(Classes[cls].parent_, name)

\* a lookup that asks the parent first
RECURSIVE Class_GetMethod_ParentFirst(_, _)
Class_GetMethod_ParentFirst(cls, name) ==
    IF /\ Classes[cls].parent_ # ""
       /\ Class_HasMethodNamed(Classes[cls].parent_, name)
    THEN Class_GetMethod_ParentFirst(Classes[cls].parent_, name)
    ELSE Classes[cls].methods_[name]

\* Class::GetMethod, where it finds one
RECURSIVE Class_GetMethod(_, _)
Class_GetMethod(cls, name) ==
    IF name \in DOMAIN Classes[cls].methods_ THEN Classes[cls].methods_[name]
    ELSE Class_GetMethod(Classes[cls].parent_, name)

ClassInstance_HasMethod(cls, method, argument_count) ==
    /\ Class_HasMethodNamed(cls, method)
    /\ Len(Class_GetMethod(cls, method).formal_params) = argument_count

\* ------------------------------------------------------------ the programs
\* the statements of the executed programs, run in the program's closure
Statements ==
    << Assignment("x", NewInstance("A", <<NewInstance("B", <<>>)>>)),
       Assignment("x", NewInstance("B", <<>>)),
       Assignment("y", NewInstance("B", <<>>)),
       Assignment("x", MethodCall(NewInstance("A", <<NewInstance("B", <<>>)>>),
                                  "me", <<>>)),
       Assignment("x", MethodCall(Var("x"), "me", <<>>)),
       Assignment("y", MethodCall(Var("x"), "me", <<>>)),
       MethodCall(Var("x"), "keep", <<Var("x")>>),
       Assignment("y", Add(Var("x"), NewInstance("B", <<>>))),
       Assignment("x", NewInstance("B", <<NewInstance("B", <<>>)>>)),
       Assignment("x", NewInstance("A", <<>>)),
       MethodCall(Var("x"), "nosuch", <<>>),
       MethodCall(Var("x"), "me", <<NewInstance("B", <<>>)>>),
       Assignment("y", MethodCall(Var("x"), "outer", <<NewInstance("B", <<>>)>>)),
       Assignment("y", MethodCall(Var("x"), "none", <<>>)),
       MethodCall(MethodCall(Var("x"), "none", <<>>), "me", <<>>),
       Assignment("y", MethodCall(Var("x"), "pair",
                                  <<NewInstance("B", <<>>),
                                    NewInstance("A", <<Var("x")>>)>>)) >>

\* the sequences of 1..n statement numbers
RECURSIVE StatementLists(_)
StatementLists(n) ==
    IF n = 0 THEN {<<>>}
    ELSE StatementLists(n - 1)
             \cup {Append(l, i) : l \in StatementLists(n - 1),
                                  i \in 1..Len(Statements)}

Programs ==
    {Compound([i \in 1..Len(l) |-> Statements[l[i]]]) :
         l \in StatementLists(MaxStmts) \ {<<>>}}

\* --------------------------------------------------------- the machine
\* stack holds the Execute and Call invocations in progress, innermost last:
\* node is the statement (or the call), k the number of invocations the frame
\* has started, vals the holders in its local variables, self the receiver
\* of a call.  closures holds the program's closure and one closure per call
\* in progress.  heap[a] is the object at address a; alive turns FALSE when
\* its last owning holder is destroyed.  mode tells how control reached the
\* innermost frame: "call" entering it, "ret" as the invocation it started
\* returns val, or the type of the exception that is unwinding the stack.
Frame(node) == [node |-> node, k |-> 0, vals |-> <<>>, self |-> 0]
CallFrame(a, method, actual_args) ==
    [node |-> [op |-> "Call", method_name_ |-> method], k |-> 0,
     vals |-> actual_args, self |-> a]

Top == stack[Len(stack)]
CurrentClosure == closures[Len(closures)]
Pop(q) == SubSeq(q, 1, Len(q) - 1)
ReplaceTop(q, e) == [q EXCEPT ![Len(q)] = e]
Range(f) == {f[n] : n \in DOMAIN f}

NoFields == [n \in {} |-> ObjectHolder_None]
\* an insertion that keeps an entry of that name
Bind_Keep(m, name, h) ==
    [n \in DOMAIN m \cup {name} |-> IF n \in DOMAIN m THEN m[n] ELSE h]

\* map::insert_or_assign and map::operator[] followed by an assignment
Bind(m, name, h) ==
    [n \in DOMAIN m \cup {name} |-> IF n = name THEN h ELSE m[n]]
\* map::emplace leaves an entry of that name alone
Emplace(m, name, h) == IF name \in DOMAIN m THEN m ELSE Bind(m, name, h)

RECURSIVE EmplaceAll(_, _, _, _)
EmplaceAll(m, names, hs, i) ==
    IF i > Len(names) THEN m
    ELSE EmplaceAll(Emplace(m, names[i], hs[i]), names, hs, i + 1)

\* An object: kind is its dynamic type, value the value of a Number (an
\* int), a String (its bytes) or a Bool, cls the class of a ClassInstance or
\* the name of a Class, fields the closure_ of a ClassInstance.  ast tells
\* that a holder in the syntax tree owns it (the value of a constant, the
\* class of a class definition): such an object lives as long as the program.
Object(kind, cls, value, ast) ==
    [kind |-> kind, cls |-> cls, value |-> value, fields |-> NoFields,
     alive |-> TRUE, ast |-> ast]

ClassInstance(cls) == Object("ClassInstance", cls, 0, FALSE)
Number(n) == Object("Number", "", n, FALSE)
String(str) == Object("String", "", str, FALSE)
Bool(b) == Object("Bool", "", b, FALSE)

\* holder.TryAs<T>() is not null
TryAs(h, kind, hp) == h.addr # 0 /\ hp[h.addr].kind = kind

\* the holders in local variables, in closures and in flight
Holders(stk, clos, v) ==
    {v} \cup UNION {Range(stk[i].vals) : i \in 1..Len(stk)}
        \cup UNION {Range(clos[i]) : i \in 1..Len(clos)}

\* the addresses some owning holder points to, among the holders roots, the
\* holders in the syntax tree and the fields of the objects S
Owned(S, roots, hp) ==
    {h.addr : h \in {r \in roots : r.own}}
        \cup {a \in 1..Len(hp) : hp[a].ast}
        \cup UNION {{h.addr : h \in {f \in Range(hp[a].fields) : f.own}} :
                        a \in S}

\* shared_ptr's reference counts: an object is destroyed, and its fields
\* with it, when no owning holder points to it any longer
RECURSIVE Survivors(_, _, _)
Survivors(S, roots, hp) ==
    IF S \subseteq Owned(S, roots, hp) THEN S
    ELSE Survivors(S \cap Owned(S, roots, hp), roots, hp)

Destroy(hp, stk, clos, v) ==
    [a \in 1..Len(hp) |->
        [hp[a] EXCEPT !.alive =
            a \in Survivors({b \in 1..Len(hp) : hp[b].alive},
                            Holders(stk, clos, v), hp)]]

Dangling(h, hp) == h.addr # 0 /\ ~hp[h.addr].alive

Event(ev, what, h) == [ev |-> ev, what |-> what, h |-> h]

\* how an exception of each type ends the program when nothing catches it
Uncaught ==
    [runtime_error |-> "failed", out_of_range |-> "failed_out_of_range",
     throw |-> "terminate"]
Unwinding == DOMAIN Uncaught
Running == {"call", "ret"} \cup Unwinding

\* one step of the interpreter: the stack, the closures and the heap it
\* leaves, with the objects destroyed that lost their last owner,
\* and out the bytes it writes
EvalStepWriting(stk, clos, hp, md, v, ev, out) ==
    /\ stack' = stk
    /\ closures' = clos
    /\ heap' = Destroy(hp, stk, clos, v)
    /\ mode' = md
    /\ val' = v
    /\ log' = log \o ev
    /\ output' = output \o out
    /\ UNCHANGED <<prog, ndebug, lvars>>

EvalStep(stk, clos, hp, md, v, ev) ==
    EvalStepWriting(stk, clos, hp, md, v, ev, <<>>)

\* the frame calls child->Execute(closure, context)
ExecuteChild(frame, child, hp) ==
    EvalStep(Append(ReplaceTop(stack, frame), Frame(child)), closures, hp,
             "call", ObjectHolder_None,
             <<Event("Execute", child.op, ObjectHolder_None)>>)

\* the frame calls cli->Call(method, actual_args, context)
ExecuteCall(frame, a, method, actual_args, hp) ==
    EvalStep(Append(ReplaceTop(stack, frame), CallFrame(a, method, actual_args)),
             closures, hp, "call", ObjectHolder_None,
             <<Event("Call", method, ObjectHolder_Share(a))>>)

\* the innermost invocation returns v
Returns(v, clos, hp, ev) ==
    EvalStep(Pop(stack), clos, hp, IF Len(stack) = 1 THEN "done" ELSE "ret",
             v, ev)

\* the innermost invocation throws
Throws(md, v, clos, ev) ==
    EvalStep(Pop(stack), clos, heap,
             IF Len(stack) = 1 THEN Uncaught[md] ELSE md, v, ev)

\* the program stops where it is: a failed assert() aborts it, undefined
\* behaviour ("ub": the build may do anything from here on) ends the model
Stops(md, ev) == EvalStep(stack, closures, heap, md, val, ev)

\* the innermost invocation in progress is of this kind
At(op) == mode \in Running /\ Top.node.op = op

\* assert(cond) of a build without NDEBUG
AssertFails(cond) == ~ndebug /\ ~cond

\* ------------------------------------------------- VariableValue::Execute
RECURSIVE VariableValue_Walk(_, _, _, _)
VariableValue_Walk(obj, ids, i, hp) ==
    IF i > Len(ids) THEN [st |-> "ok", h |-> obj]
    ELSE IF Dangling(obj, hp) THEN [st |-> "dangling", h |-> obj]
    ELSE IF ~TryAs(obj, "ClassInstance", hp) THEN [st |-> "null", h |-> obj]
    ELSE IF ids[i] \notin DOMAIN hp[obj.addr].fields
        THEN [st |-> "out_of_range", h |-> obj]
    ELSE VariableValue_Walk(hp[obj.addr].fields[ids[i]], ids, i + 1, hp)

VariableValue_Value(clo, hp, ids) ==
    IF ids[1] \notin DOMAIN clo
        THEN [st |-> "runtime_error", h |-> ObjectHolder_None]
    ELSE VariableValue_Walk(clo[ids[1]], ids, 2, hp)

\* how an Execute that cannot produce a value ends: by an exception, by a
\* failed assert(cli), or by using the null or dangling pointer
Fails(st, clos, what) ==
    IF st \in Unwinding
        THEN Throws(st, ObjectHolder_None, clos,
                    <<Event(st, what, ObjectHolder_None)>>)
    ELSE IF st = "null" /\ ~ndebug
        THEN Stops("abort", <<Event("abort", what, ObjectHolder_None)>>)
    ELSE Stops("ub", <<Event("ub", what, ObjectHolder_None)>>)

VariableValue_Execute ==
    /\ mode = "call"
    /\ At("VariableValue")
    /\ IF VariableValue_Value(CurrentClosure, heap, Top.node.dotted_ids_).st = "ok"
         THEN Returns(VariableValue_Value(CurrentClosure, heap,
                                          Top.node.dotted_ids_).h,
                      closures, heap, <<>>)
         ELSE Fails(VariableValue_Value(CurrentClosure, heap,
                                        Top.node.dotted_ids_).st,
                    closures, "VariableValue")

\* ---------------------------------------------------- Assignment::Execute
Assignment_Execute ==
    /\ At("Assignment")
    /\ \/ /\ mode = "call"
          /\ ExecuteChild([Top EXCEPT !.k = 1], Top.node.right_value_, heap)
       \/ /\ mode = "ret"
          /\ Returns(val,
                     ReplaceTop(closures,
                                Bind(CurrentClosure, Top.node.var_name_, val)),
                     heap, <<>>)

\* ----------------------------------------------- FieldAssignment::Execute
\* the object cli points to after TryAs<ClassInstance>()
FieldAssignment_Object ==
    VariableValue_Value(CurrentClosure, heap, Top.node.object_.dotted_ids_)

FieldAssignment_Status ==
    IF FieldAssignment_Object.st # "ok" THEN FieldAssignment_Object.st
    ELSE IF Dangling(FieldAssignment_Object.h, heap) THEN "dangling"
    ELSE IF ~TryAs(FieldAssignment_Object.h, "ClassInstance", heap) THEN "null"
    ELSE "ok"

FieldAssignment_Execute ==
    /\ At("FieldAssignment")
    /\ \/ /\ mode = "call"
          /\ ExecuteChild([Top EXCEPT !.k = 1], Top.node.right_value_, heap)
       \/ /\ mode = "ret"
          /\ IF FieldAssignment_Status = "ok"
               THEN Returns(val, closures,
                        [heap EXCEPT ![FieldAssignment_Object.h.addr].fields =
                            Bind(@, Top.node.field_name_, val)],
                        <<>>)
               ELSE Fails(FieldAssignment_Status, closures, "FieldAssignment")

\* --------------------------------------------------- ClassInstance::Call
ClassInstance_Call ==
    /\ At("Call")
    /\ \/ /\ mode = "call"
          /\ IF ClassInstance_HasMethod(heap[Top.self].cls,
                                        Top.node.method_name_, Len(Top.vals))
               THEN EvalStep(
                        Append(ReplaceTop(stack, [Top EXCEPT !.k = 1]),
                               Frame(Class_GetMethod(heap[Top.self].cls,
                                         Top.node.method_name_).body)),
                        Append(closures,
                               EmplaceAll(
                                   Bind(NoFields, "self",
                                        ObjectHolder_Share(Top.self)),
                                   Class_GetMethod(heap[Top.self].cls,
                                       Top.node.method_name_).formal_params,
                                   Top.vals, 1)),
                        heap, "call", ObjectHolder_None,
                        <<Event("Execute", "MethodBody", ObjectHolder_None)>>)
               ELSE Throws("runtime_error", ObjectHolder_None, closures,
                           <<Event("runtime_error", "Call", ObjectHolder_None)>>)
       \/ /\ mode = "ret"
          /\ Returns(val, Pop(closures), heap, <<>>)

\* ---------------------------------------------------- Compound::Execute
Compound_Execute ==
    /\ At("Compound")
    /\ mode \in {"call", "ret"}
    /\ IF Top.k < Len(Top.node.args_)
         THEN ExecuteChild([Top EXCEPT !.k = @ + 1],
                           Top.node.args_[Top.k + 1], heap)
         ELSE Returns(ObjectHolder_None, closures, heap, <<>>)

\* ------------------------------------------------------ Return::Execute
Return_Execute ==
    /\ At("Return")
    /\ \/ /\ mode = "call"
          /\ ExecuteChild([Top EXCEPT !.k = 1], Top.node.statement_, heap)
       \/ /\ mode = "ret"
          /\ Throws("throw", val, closures, <<Event("Return", "throw", val)>>)

\* --------------------------------------------------- MethodBody::Execute
\* a catch clause that drops the thrown value
MethodBody_Caught_Nothing(obj) == ObjectHolder_None

\* what the catch (ObjectHolder& obj) clause returns
MethodBody_Caught(obj) == obj

MethodBody_Execute ==
    /\ At("MethodBody")
    /\ \/ /\ mode = "call"
          /\ ExecuteChild([Top EXCEPT !.k = 1], Top.node.body_, heap)
       \/ /\ mode = "ret"
          /\ Returns(ObjectHolder_None, closures, heap,
                     <<Event("MethodBody", "return", ObjectHolder_None)>>)
       \/ /\ mode = "throw"
          /\ Returns(MethodBody_Caught(val), closures, heap,
                     <<Event("MethodBody", "catch", MethodBody_Caught(val))>>)

\* an exception leaves an invocation that does not catch it: its local
\* variables are destroyed, and a call's closure with them
Unwind ==
    /\ mode \in Unwinding
    /\ ~(mode = "throw" /\ Top.node.op = "MethodBody")
    /\ Throws(mode, val,
              IF Top.node.op = "Call" /\ Top.k = 1 THEN Pop(closures)
              ELSE closures,
              <<>>)

\* --------------------------------------------------- NewInstance::Execute
\* the frame's vals are new_object and then actual_args
NewInstance_ArgsOrCall(frame, hp) ==
    IF Len(frame.vals) <= Len(frame.node.args_)
        THEN ExecuteChild([frame EXCEPT !.k = @ + 1],
                          frame.node.args_[Len(frame.vals)], hp)
    ELSE ExecuteCall([frame EXCEPT !.k = @ + 1], frame.vals[1].addr,
                     INIT_METHOD, Tail(frame.vals), hp)

NewInstance_Execute ==
    /\ At("NewInstance")
    /\ \/ /\ mode = "call"
          /\ IF ~ClassInstance_HasMethod(Top.node.class_, INIT_METHOD,
                                         Len(Top.node.args_))
               THEN Returns(ObjectHolder_Own(Len(heap) + 1), closures,
                            Append(heap, ClassInstance(Top.node.class_)), <<>>)
               ELSE NewInstance_ArgsOrCall(
                        [Top EXCEPT !.vals = <<ObjectHolder_Own(Len(heap) + 1)>>],
                        Append(heap, ClassInstance(Top.node.class_)))
       \/ /\ mode = "ret"
          /\ Top.k <= Len(Top.node.args_)
          /\ NewInstance_ArgsOrCall([Top EXCEPT !.vals = Append(@, val)], heap)
       \/ /\ mode = "ret"
          /\ Top.k = Len(Top.node.args_) + 1
          /\ Returns(Top.vals[1], closures, heap, <<>>)

\* ---------------------------------------------------- MethodCall::Execute
\* the frame's vals are obj and then actual_args
MethodCall_ArgsOrCall(frame) ==
    IF Len(frame.vals) <= Len(frame.node.args_)
        THEN ExecuteChild([frame EXCEPT !.k = @ + 1],
                          frame.node.args_[Len(frame.vals)], heap)
    ELSE ExecuteCall([frame EXCEPT !.k = @ + 1], frame.vals[1].addr,
                     frame.node.method_name_, Tail(frame.vals), heap)

MethodCall_Execute ==
    /\ At("MethodCall")
    /\ \/ /\ mode = "call"
          /\ ExecuteChild([Top EXCEPT !.k = 1], Top.node.object_, heap)
       \/ /\ mode = "ret"
          /\ Top.k = 1
          /\ IF Dangling(val, heap) THEN Fails("dangling", closures, "MethodCall")
             ELSE IF ~TryAs(val, "ClassInstance", heap)
                 THEN Fails("runtime_error", closures, "MethodCall")
             ELSE IF AssertFails(ClassInstance_HasMethod(heap[val.addr].cls,
                                     Top.node.method_name_,
                                     Len(Top.node.args_)))
                 THEN Stops("abort",
                            <<Event("abort", "MethodCall", ObjectHolder_None)>>)
             ELSE MethodCall_ArgsOrCall([Top EXCEPT !.vals = <<val>>])
       \/ /\ mode = "ret"
          /\ Top.k > 1
          /\ Top.k <= Len(Top.node.args_) + 1
          /\ MethodCall_ArgsOrCall([Top EXCEPT !.vals = Append(@, val)])
       \/ /\ mode = "ret"
          /\ Top.k = Len(Top.node.args_) + 2
          /\ Returns(val, closures, heap, <<>>)

\* ------------------------------------------------------------ arithmetic
\* Number holds an int
INT_MAX == 2147483647
INT_MIN == -INT_MAX - 1

\* the operator / of two ints: the quotient with its fraction discarded
\* (\div rounds down and takes a positive divisor only)
Truncated(l, r) ==
    IF l >= 0 \/ l % r = 0 THEN l \div r ELSE (l \div r) + 1

Quotient(l, r) ==
    IF r > 0 THEN Truncated(l, r)
    ELSE IF r = INT_MIN THEN (IF l = INT_MIN THEN 1 ELSE 0)
    ELSE -Truncated(l, -r)

\* the least r such that l * r is an int, for l > 0
LeastFactor(l) ==
    -(INT_MAX \div l) - (IF INT_MAX % l = l - 1 THEN 1 ELSE 0)

\* no int holds the value of the expression: its behaviour is undefined
Overflows(op, l, r) ==
    CASE op = "Add" -> \/ r > 0 /\ l > INT_MAX - r
                       \/ r < 0 /\ l < INT_MIN - r
      [] op = "Sub" -> \/ r < 0 /\ l > INT_MAX + r
                       \/ r > 0 /\ l < INT_MIN + r
      [] op = "Mult" -> \/ l > 0 /\ r > 0 /\ r > INT_MAX \div l
                        \/ l > 0 /\ r < 0 /\ r < LeastFactor(l)
                        \/ l < 0 /\ r > 0 /\ l < LeastFactor(r)
                        \/ l < 0 /\ r < 0 /\ (\/ l = INT_MIN
                                               \/ r = INT_MIN
                                               \/ -l > INT_MAX \div (-r))
      [] op = "Div" -> l = INT_MIN /\ r = -1

\* the value of l op r where an int holds it (for Div: r is not 0)
Arithmetic(op, l, r) ==
    CASE op = "Add" -> l + r
      [] op = "Sub" -> l - r
      [] op = "Mult" -> l * r
      [] op = "Div" -> Quotient(l, r)

\* return ObjectHolder::Own(Number{l op r})
NumberResult(op, l, r) ==
    IF Overflows(op, l, r)
    THEN Stops("ub", <<Event("ub", op, ObjectHolder_None)>>)
    ELSE Returns(ObjectHolder_Own(Len(heap) + 1), closures,
                 Append(heap, Number(Arithmetic(op, l, r))), <<>>)

\* ----------------------------------------------------------- Add::Execute
Add_Execute ==
    /\ At("Add")
    /\ \/ /\ mode = "call"
          /\ ExecuteChild([Top EXCEPT !.k = 1], Top.node.lhs_, heap)
       \/ /\ mode = "ret"
          /\ Top.k = 1
          /\ ExecuteChild([Top EXCEPT !.k = 2, !.vals = <<val>>],
                          Top.node.rhs_, heap)
       \/ /\ mode = "ret"
          /\ Top.k = 2
          /\ IF Dangling(Top.vals[1], heap) \/ Dangling(val, heap)
               THEN Fails("dangling", closures, "Add")
             ELSE IF TryAs(Top.vals[1], "Number", heap)
                         /\ TryAs(val, "Number", heap)
               THEN NumberResult("Add", heap[Top.vals[1].addr].value,
                                 heap[val.addr].value)
             ELSE IF TryAs(Top.vals[1], "String", heap)
                         /\ TryAs(val, "String", heap)
               THEN Returns(ObjectHolder_Own(Len(heap) + 1), closures,
                            Append(heap, String(heap[Top.vals[1].addr].value
                                                    \o heap[val.addr].value)),
                            <<>>)
             ELSE IF /\ val.addr # 0
                     /\ TryAs(Top.vals[1], "ClassInstance", heap)
                     /\ ClassInstance_HasMethod(heap[Top.vals[1].addr].cls,
                                                ADD_METHOD, 1)
               THEN ExecuteCall([Top EXCEPT !.k = 3, !.vals = Append(@, val)],
                                Top.vals[1].addr, ADD_METHOD,
                                <<ObjectHolder_Share(val.addr)>>, heap)
             ELSE Fails("runtime_error", closures, "Add")
       \/ /\ mode = "ret"
          /\ Top.k = 3
          /\ Returns(val, closures, heap, <<>>)

\* the operands of a BinaryOperation, the left one first
BinaryOperation_Arguments ==
    \/ /\ mode = "call"
       /\ ExecuteChild([Top EXCEPT !.k = 1], Top.node.lhs_, heap)
    \/ /\ mode = "ret"
       /\ Top.k = 1
       /\ ExecuteChild([Top EXCEPT !.k = 2, !.vals = <<val>>],
                       Top.node.rhs_, heap)

\* ------------------------------------------------------------ the runs
\* a program starts with an empty closure, in a build with or without NDEBUG
InitEval ==
    /\ InitLexer
    /\ text = NoText
    /\ prog \in Programs
    /\ ndebug \in BOOLEAN
    /\ stack = <<Frame(prog)>>
    /\ closures = <<NoFields>>
    /\ heap = <<>>
    /\ mode = "call"
    /\ val = ObjectHolder_None
    /\ log = <<>>
    /\ output = <<>>

NextEval ==
    \/ VariableValue_Execute
    \/ Assignment_Execute
    \/ FieldAssignment_Execute
    \/ NewInstance_Execute
    \/ MethodCall_Execute
    \/ Add_Execute
    \/ Compound_Execute
    \/ Return_Execute
    \/ MethodBody_Execute
    \/ ClassInstance_Call
    \/ Unwind

SpecEval == InitEval /\ [][NextEval]_vars

\* ==================================================================
\* Values: constants, arithmetic, logic, classes as values
\* ==================================================================

\* the object a holder of the syntax tree owns: made when the tree is built;
\* the model makes it when the holder is first used.  0: not made yet
InTree(hp, obj) ==
    IF \E a \in 1..Len(hp) : /\ hp[a].ast
                             /\ hp[a].kind = obj.kind
                             /\ hp[a].cls = obj.cls
                             /\ hp[a].value = obj.value
    THEN CHOOSE a \in 1..Len(hp) : /\ hp[a].ast
                                   /\ hp[a].kind = obj.kind
                                   /\ hp[a].cls = obj.cls
                                   /\ hp[a].value = obj.value
    ELSE 0

\* the heap with that object in it, and its address there
WithTree(hp, obj) == IF InTree(hp, obj) = 0 THEN Append(hp, obj) ELSE hp
TreeHolder(hp, obj) == ObjectHolder_Own(InTree(WithTree(hp, obj), obj))

\* ------------------------------------------------ ValueStatement::Execute
\* the object the constant holds
ValueStatement_Value(node) ==
    Object(node.kind, "",
           CASE node.kind = "Number" -> node.number
             [] node.kind = "String" -> node.string
             [] node.kind = "Bool" -> node.bool,
           TRUE)

ValueStatement_Execute ==
    /\ At("ValueStatement")
    /\ mode = "call"
    /\ Returns(TreeHolder(heap, ValueStatement_Value(Top.node)), closures,
               WithTree(heap, ValueStatement_Value(Top.node)), <<>>)

\* --------------------------------------------------------- None::Execute
None_Execute ==
    /\ At("None")
    /\ mode = "call"
    /\ Returns(ObjectHolder_None, closures, heap, <<>>)

\* ------------------------------------------------ ClassDefinition::Execute
ClassDefinition_Execute ==
    /\ At("ClassDefinition")
    /\ mode = "call"
    /\ Returns(ObjectHolder_None,
               ReplaceTop(closures,
                   Emplace(CurrentClosure, Top.node.class_definition_.name_,
                       TreeHolder(heap,
                           Object("Class", Top.node.class_definition_.name_,
                                  Top.node.class_definition_.n, TRUE)))),
               WithTree(heap,
                        Object("Class", Top.node.class_definition_.name_,
                               Top.node.class_definition_.n, TRUE)),
               <<>>)

\* ------------------------------------------ Sub, Mult and Div::Execute
\* the operands are in: a Number if both are Numbers (and, for Div, the
\* right one is not 0)
\* an operation that returns None where it cannot compute
NumberOperation_Lenient(op) ==
    IF Dangling(Top.vals[1], heap) \/ Dangling(val, heap)
        THEN Fails("dangling", closures, op)
    ELSE IF /\ TryAs(Top.vals[1], "Number", heap)
            /\ TryAs(val, "Number", heap)
            /\ (op = "Div" => heap[val.addr].value # 0)
        THEN NumberResult(op, heap[Top.vals[1].addr].value,
                          heap[val.addr].value)
    ELSE Returns(ObjectHolder_None, closures, heap, <<>>)

NumberOperation(op) ==
    IF Dangling(Top.vals[1], heap) \/ Dangling(val, heap)
        THEN Fails("dangling", closures, op)
    ELSE IF /\ TryAs(Top.vals[1], "Number", heap)
            /\ TryAs(val, "Number", heap)
            /\ (op = "Div" => heap[val.addr].value # 0)
        THEN NumberResult(op, heap[Top.vals[1].addr].value,
                          heap[val.addr].value)
    ELSE Fails("runtime_error", closures, op)

Sub_Execute ==
    /\ At("Sub")
    /\ \/ BinaryOperation_Arguments
       \/ /\ mode = "ret"
          /\ Top.k = 2
          /\ NumberOperation("Sub")

Mult_Execute ==
    /\ At("Mult")
    /\ \/ BinaryOperation_Arguments
       \/ /\ mode = "ret"
          /\ Top.k = 2
          /\ NumberOperation("Mult")

Div_Execute ==
    /\ At("Div")
    /\ \/ BinaryOperation_Arguments
       \/ /\ mode = "ret"
          /\ Top.k = 2
          /\ NumberOperation("Div")

\* ------------------------------------------------------------- IsTrue
\* a test that takes a class and an instance for true
IsTrue_Objects(h, hp) ==
    IF h.addr = 0 THEN FALSE
    ELSE IF hp[h.addr].kind = "String" THEN hp[h.addr].value # <<>>
    ELSE IF hp[h.addr].kind = "Number" THEN hp[h.addr].value # 0
    ELSE IF hp[h.addr].kind = "Bool" THEN hp[h.addr].value # FALSE
    ELSE TRUE

\* an object that is none of these kinds would be true
IsTrue(h, hp) ==
    IF h.addr = 0 THEN FALSE
    ELSE IF hp[h.addr].kind = "String" THEN hp[h.addr].value # <<>>
    ELSE IF hp[h.addr].kind = "Number" THEN hp[h.addr].value # 0
    ELSE IF hp[h.addr].kind = "Bool" THEN hp[h.addr].value # FALSE
    ELSE IF hp[h.addr].kind \in {"Class", "ClassInstance"} THEN FALSE
    ELSE TRUE

\* a result that is the operand itself
BoolResult_Operand(b) == Returns(val, closures, heap, <<>>)

\* return ObjectHolder::Own(Bool{b})
BoolResult(b) ==
    Returns(ObjectHolder_Own(Len(heap) + 1), closures, Append(heap, Bool(b)),
            <<>>)

\* ------------------------------------------- Or, And and Not::Execute
Or_Execute ==
    /\ At("Or")
    /\ \/ /\ mode = "call"
          /\ ExecuteChild([Top EXCEPT !.k = 1], Top.node.lhs_, heap)
       \/ /\ mode = "ret"
          /\ Top.k = 1
          /\ IF Dangling(val, heap) THEN Fails("dangling", closures, "Or")
             ELSE IF ~IsTrue(val, heap)
               THEN ExecuteChild([Top EXCEPT !.k = 2, !.vals = <<val>>],
                                 Top.node.rhs_, heap)
             ELSE BoolResult(TRUE)
       \/ /\ mode = "ret"
          /\ Top.k = 2
          /\ IF Dangling(val, heap) THEN Fails("dangling", closures, "Or")
             ELSE BoolResult(FALSE \/ IsTrue(val, heap))

And_Execute ==
    /\ At("And")
    /\ \/ /\ mode = "call"
          /\ ExecuteChild([Top EXCEPT !.k = 1], Top.node.lhs_, heap)
       \/ /\ mode = "ret"
          /\ Top.k = 1
          /\ IF Dangling(val, heap) THEN Fails("dangling", closures, "And")
             ELSE IF IsTrue(val, heap)
               THEN ExecuteChild([Top EXCEPT !.k = 2, !.vals = <<val>>],
                                 Top.node.rhs_, heap)
             ELSE BoolResult(FALSE)
       \/ /\ mode = "ret"
          /\ Top.k = 2
          /\ IF Dangling(val, heap) THEN Fails("dangling", closures, "And")
             ELSE BoolResult(TRUE /\ IsTrue(val, heap))

Not_Execute ==
    /\ At("Not")
    /\ \/ /\ mode = "call"
          /\ ExecuteChild([Top EXCEPT !.k = 1], Top.node.argument_, heap)
       \/ /\ mode = "ret"
          /\ IF Dangling(val, heap) THEN Fails("dangling", closures, "Not")
             ELSE BoolResult(~IsTrue(val, heap))

\* ------------------------------------------------------ Equal and Less
\* the order of the bytes of a String (char_traits<char>::lt)
CharCode(c) == CASE c = "a" -> 97 [] c = "b" -> 98

\* std::string's operator<
RECURSIVE StringLess(_, _)
StringLess(l, r) ==
    IF r = <<>> THEN FALSE
    ELSE IF l = <<>> THEN TRUE
    ELSE IF CharCode(Head(l)) # CharCode(Head(r))
        THEN CharCode(Head(l)) < CharCode(Head(r))
    ELSE StringLess(Tail(l), Tail(r))

\* operator< of two values of one kind
ValueLess(kind, l, r) ==
    CASE kind = "String" -> StringLess(l, r)
      [] kind = "Number" -> l < r
      [] kind = "Bool" -> ~l /\ r

Outcome(st, b) == [st |-> st, b |-> b]

\* the kinds Equal and Less compare themselves, in the order they try them
ComparedKinds == <<"String", "Number", "Bool">>

\* what Equal or Less does with two operands that are not left to a method:
\* the result for the first kind both operands are of, else a runtime error
RECURSIVE ByKind(_, _, _, _, _)
ByKind(fn, lhs, rhs, hp, i) ==
    IF i > Len(ComparedKinds) THEN Outcome("runtime_error", FALSE)
    ELSE IF TryAs(lhs, ComparedKinds[i], hp) /\ TryAs(rhs, ComparedKinds[i], hp)
        THEN Outcome("value",
                     IF fn = "Equal"
                     THEN hp[lhs.addr].value = hp[rhs.addr].value
                     ELSE ValueLess(ComparedKinds[i], hp[lhs.addr].value,
                                    hp[rhs.addr].value))
    ELSE ByKind(fn, lhs, rhs, hp, i + 1)

\* the method Equal and Less leave the comparison to
ComparisonMethod(fn) == IF fn = "Equal" THEN "__eq__" ELSE "__lt__"

\* runtime::Equal and runtime::Less up to the call of the method: "value"
\* with the result, "call" the method, or how they fail
Compare(fn, lhs, rhs, hp) ==
    IF fn = "Equal" /\ lhs.addr = 0 /\ rhs.addr = 0 THEN Outcome("value", TRUE)
    ELSE IF Dangling(lhs, hp) THEN Outcome("dangling", FALSE)
    ELSE IF /\ TryAs(lhs, "ClassInstance", hp)
            /\ ClassInstance_HasMethod(hp[lhs.addr].cls, ComparisonMethod(fn), 1)
        THEN Outcome("call", FALSE)
    ELSE IF Dangling(rhs, hp) THEN Outcome("dangling", FALSE)
    ELSE ByKind(fn, lhs, rhs, hp, 1)

\* the rest of them once the method has returned val: the temporary holder
\* of the result is destroyed before res->GetValue() reads the Bool
CompareResult(stk, clos, hp, v) ==
    IF Dangling(v, hp) THEN Outcome("dangling", FALSE)
    ELSE IF ~TryAs(v, "Bool", hp) THEN Outcome("runtime_error", FALSE)
    ELSE IF ~Destroy(hp, stk, clos, ObjectHolder_None)[v.addr].alive
        THEN Outcome("dangling", FALSE)
    ELSE Outcome("value", hp[v.addr].value)

\* ------------------------------------------------- the comparators
Comparators ==
    {"Equal", "NotEqual", "Less", "Greater", "LessOrEqual", "GreaterOrEqual"}

\* the function a comparator calls first, and the one Greater (and
\* LessOrEqual through it) calls when Less is false
FirstCall(cmp) == IF cmp \in {"Equal", "NotEqual"} THEN "Equal" ELSE "Less"
CallsEqualToo(cmp, less) == cmp \in {"Greater", "LessOrEqual"} /\ ~less

\* a slip: GreaterOrEqual is Less
Compared_Slip(cmp, b) ==
    CASE cmp \in {"Equal", "Less", "GreaterOrEqual"} -> b
      [] cmp = "NotEqual" -> ~b
      [] cmp = "Greater" -> FALSE
      [] cmp = "LessOrEqual" -> b

\* the comparator's result when the first call, which returned b, is the
\* last one: a true Less makes Greater false and LessOrEqual true
Compared(cmp, b) ==
    CASE cmp \in {"Equal", "Less"} -> b
      [] cmp \in {"NotEqual", "GreaterOrEqual"} -> ~b
      [] cmp = "Greater" -> FALSE
      [] cmp = "LessOrEqual" -> b

\* when that call is the Equal after a false Less
ComparedEqual(cmp, b) == IF cmp = "Greater" THEN ~b ELSE b

\* ---------------------------------------------------- Comparison::Execute
\* Equal, called after Less was false
Comparison_Second(frame) ==
    IF Compare("Equal", frame.vals[1], frame.vals[2], heap).st = "value"
        THEN BoolResult(ComparedEqual(frame.node.comparator_,
                 Compare("Equal", frame.vals[1], frame.vals[2], heap).b))
    ELSE IF Compare("Equal", frame.vals[1], frame.vals[2], heap).st = "call"
        THEN ExecuteCall([frame EXCEPT !.k = 4], frame.vals[1].addr, "__eq__",
                         <<frame.vals[2]>>, heap)
    ELSE Fails(Compare("Equal", frame.vals[1], frame.vals[2], heap).st,
               closures, "Equal")

\* the first call has returned b
Comparison_AfterFirst(frame, b) ==
    IF CallsEqualToo(frame.node.comparator_, b) THEN Comparison_Second(frame)
    ELSE BoolResult(Compared(frame.node.comparator_, b))

Comparison_First(frame) ==
    IF Compare(FirstCall(frame.node.comparator_), frame.vals[1],
               frame.vals[2], heap).st = "value"
        THEN Comparison_AfterFirst(frame,
                 Compare(FirstCall(frame.node.comparator_), frame.vals[1],
                         frame.vals[2], heap).b)
    ELSE IF Compare(FirstCall(frame.node.comparator_), frame.vals[1],
                    frame.vals[2], heap).st = "call"
        THEN ExecuteCall([frame EXCEPT !.k = 3], frame.vals[1].addr,
                         ComparisonMethod(FirstCall(frame.node.comparator_)),
                         <<frame.vals[2]>>, heap)
    ELSE Fails(Compare(FirstCall(frame.node.comparator_), frame.vals[1],
                       frame.vals[2], heap).st,
               closures, FirstCall(frame.node.comparator_))

Comparison_Execute ==
    /\ At("Comparison")
    /\ \/ BinaryOperation_Arguments
       \/ /\ mode = "ret"
          /\ Top.k = 2
          /\ Comparison_First([Top EXCEPT !.vals = Append(@, val)])
       \/ /\ mode = "ret"
          /\ Top.k = 3
          /\ IF CompareResult(stack, closures, heap, val).st = "value"
               THEN Comparison_AfterFirst(Top,
                        CompareResult(stack, closures, heap, val).b)
               ELSE Fails(CompareResult(stack, closures, heap, val).st,
                          closures, FirstCall(Top.node.comparator_))
       \/ /\ mode = "ret"
          /\ Top.k = 4
          /\ IF CompareResult(stack, closures, heap, val).st = "value"
               THEN BoolResult(ComparedEqual(Top.node.comparator_,
                        CompareResult(stack, closures, heap, val).b))
               ELSE Fails(CompareResult(stack, closures, heap, val).st,
                          closures, "Equal")

\* ------------------------------------------------- Object::Print
DigitChar == <<"0", "1", "2", "3", "4", "5", "6", "7", "8", "9">>

\* the digits of -n, for n <= 0
RECURSIVE Digits_(_)
Digits_(n) ==
    IF n = 0 THEN <<>>
    ELSE Digits_(Quotient(n, 10))
             \o <<DigitChar[(Quotient(n, 10) * 10 - n) + 1]>>

\* os << int
Decimal(n) ==
    IF n = 0 THEN <<"0">>
    ELSE IF n < 0 THEN <<"-">> \o Digits_(n)
    ELSE Digits_(-n)

\* the bytes of the names of the classes
Spelling ==
    [Base |-> <<"B", "a", "s", "e">>, A |-> <<"A">>, B |-> <<"B">>,
     P |-> <<"P">>, Q |-> <<"Q">>, R |-> <<"R">>, S |-> <<"S">>]

\* what Print writes for an object that is no ClassInstance
Printed(obj) ==
    CASE obj.kind = "Number" -> Decimal(obj.value)
      [] obj.kind = "String" -> obj.value
      [] obj.kind = "Bool" ->
            IF obj.value THEN <<"T", "r", "u", "e">>
            ELSE <<"F", "a", "l", "s", "e">>
      [] obj.kind = "Class" ->
            <<"C", "l", "a", "s", "s", " ">> \o Spelling[obj.cls]

\* os << this: the text of the instance's address, which the build chooses
Pointer == <<"0x">>

STR_METHOD == "__str__"

\* ------------------------------------------------------- Print::Execute
\* The frame's k counts the arguments it has started; its vals hold the
\* holder being printed, and after it the results of the __str__ calls
\* made for it (ClassInstance::Print prints what __str__ returns).

\* the argument is printed, text being the last of it: on to the next
\* argument after a space, or to the line end and the return
\* a loop that writes no separator
Print_Next_Unseparated(frame, written) ==
    IF frame.k < Len(frame.node.args_)
    THEN EvalStepWriting(
             Append(ReplaceTop(stack, [frame EXCEPT !.k = @ + 1,
                                                    !.vals = <<>>]),
                    Frame(frame.node.args_[frame.k + 1])),
             closures, heap, "call", ObjectHolder_None,
             <<Event("Execute", frame.node.args_[frame.k + 1].op,
                     ObjectHolder_None)>>,
             written)
    ELSE EvalStepWriting(Pop(stack), closures, heap,
                         IF Len(stack) = 1 THEN "done" ELSE "ret",
                         ObjectHolder_None, <<>>, written \o <<"\n">>)

Print_Next(frame, written) ==
    IF frame.k < Len(frame.node.args_)
    THEN EvalStepWriting(
             Append(ReplaceTop(stack, [frame EXCEPT !.k = @ + 1,
                                                    !.vals = <<>>]),
                    Frame(frame.node.args_[frame.k + 1])),
             closures, heap, "call", ObjectHolder_None,
             <<Event("Execute", frame.node.args_[frame.k + 1].op,
                     ObjectHolder_None)>>,
             written \o (IF frame.k > 0 THEN <<" ">> ELSE <<>>))
    ELSE EvalStepWriting(Pop(stack), closures, heap,
                         IF Len(stack) = 1 THEN "done" ELSE "ret",
                         ObjectHolder_None, <<>>, written \o <<"\n">>)

\* ObjectHolder::Print of the holder h, which joins the frame's vals
Print_Holder(h) ==
    IF h.addr = 0 THEN Print_Next(Top, <<"N", "o", "n", "e">>)
    ELSE IF Dangling(h, heap) THEN Fails("dangling", closures, "Print")
    ELSE IF heap[h.addr].kind # "ClassInstance"
        THEN Print_Next(Top, Printed(heap[h.addr]))
    ELSE IF ClassInstance_HasMethod(heap[h.addr].cls, STR_METHOD, 0)
        THEN ExecuteCall([Top EXCEPT !.vals = Append(@, h)], h.addr,
                         STR_METHOD, <<>>, heap)
    ELSE Print_Next(Top, Pointer)

Print_Execute ==
    /\ At("Print")
    /\ \/ /\ mode = "call"
          /\ Print_Next(Top, <<>>)
       \/ /\ mode = "ret"
          /\ Top.vals = <<>>
          /\ Print_Holder(val)
       \/ /\ mode = "ret"
          /\ Top.vals # <<>>
          /\ IF val.addr = 0 THEN Fails("null", closures, "Print")
             ELSE Print_Holder(val)

\* ------------------------------------------------- programs with values
Numbers == (-MaxNumber..MaxNumber) \cup {INT_MIN, INT_MAX}

\* the Strings of up to n bytes
RECURSIVE StringsUpTo(_)
StringsUpTo(n) ==
    IF n = 0 THEN {<<>>}
    ELSE StringsUpTo(n - 1)
             \cup {Append(str, c) : str \in StringsUpTo(n - 1),
                                    c \in {"a", "b"}}

Strings == StringsUpTo(MaxStrLen)

NumericConsts == {NumericConst(n) : n \in Numbers}
StringConsts == {StringConst(str) : str \in Strings}
BoolConsts == {BoolConst(b) : b \in BOOLEAN}

\* operand expressions: a constant of each kind, None, a new instance of a
\* class with and without the special methods, and the class P itself
Operands ==
    NumericConsts \cup StringConsts \cup BoolConsts \cup {None}
        \cup {NewInstance(cls, <<>>) : cls \in {"P", "Q", "R", "B"}}
        \cup {Var("P")}

\* and a variable that is not defined
OperandsOrError == Operands \cup {Var("u")}

\* class P: ... ; r = <expression>
Evaluate(expression) ==
    Compound(<<ClassDefinition("P", 1), Assignment("r", expression)>>)

\* every comparator on every pair of operands
ComparisonPrograms ==
    {Evaluate(Comparison(cmp, lhs, rhs)) :
         cmp \in Comparators, lhs \in Operands, rhs \in Operands}

\* the comparators on three values x, y, z of one kind
Relations(x, y, z) ==
    Compound(<<Assignment("lt", Comparison("Less", x, y)),
               Assignment("eq", Comparison("Equal", x, y)),
               Assignment("gt", Comparison("Greater", x, y)),
               Assignment("ne", Comparison("NotEqual", x, y)),
               Assignment("le", Comparison("LessOrEqual", x, y)),
               Assignment("ge", Comparison("GreaterOrEqual", x, y)),
               Assignment("yx", Comparison("Less", y, x)),
               Assignment("yz", Comparison("Less", y, z)),
               Assignment("xz", Comparison("Less", x, z)),
               Assignment("xx", Comparison("Equal", x, x))>>)

OrderPrograms ==
    UNION {{Relations(x, y, z) : x \in K, y \in K, z \in K} :
               K \in {NumericConsts, StringConsts, BoolConsts}}

ArithmeticPrograms ==
    {Evaluate([op |-> o, lhs_ |-> lhs, rhs_ |-> rhs]) :
         o \in {"Add", "Sub", "Mult", "Div"},
         lhs \in Operands, rhs \in Operands}

LogicPrograms ==
    {Evaluate([op |-> o, lhs_ |-> lhs, rhs_ |-> rhs]) :
         o \in {"Or", "And"},
         lhs \in OperandsOrError, rhs \in OperandsOrError}
        \cup {Evaluate(Not(argument)) : argument \in OperandsOrError}

\* the argument lists of up to n arguments
PrintArguments ==
    {NumericConst(-1), StringConst(<<"a">>), BoolConst(TRUE), None, Var("u"),
     NewInstance("P", <<>>), NewInstance("B", <<>>)}

RECURSIVE ArgumentLists(_)
ArgumentLists(n) ==
    IF n = 0 THEN {<<>>}
    ELSE ArgumentLists(n - 1)
             \cup {Append(l, a) : l \in ArgumentLists(n - 1),
                                  a \in PrintArguments}

\* print <arguments> ; print 0
PrintPrograms ==
    {Compound(<<Print_Statement(args), Print_Statement(<<NumericConst(0)>>)>>) :
         args \in ArgumentLists(MaxArgs)}

\* class definitions into a closure with and without an entry of that name
ClassPrograms ==
    {Compound(<<ClassDefinition("A", 1)>>),
     Compound(<<ClassDefinition("A", 1), ClassDefinition("B", 1)>>),
     Compound(<<ClassDefinition("A", 1), ClassDefinition("A", 2)>>),
     Compound(<<Assignment("A", NumericConst(1)), ClassDefinition("A", 1)>>),
     Compound(<<Assignment("x", NumericConst(1)), ClassDefinition("A", 1)>>)}

\* x = 1 ; y = P() ; z = y.<method>(<arguments>)
CallOf(method, args) ==
    Compound(<<Assignment("x", NumericConst(1)),
               Assignment("y", NewInstance("P", <<>>)),
               Assignment("z", MethodCall(Var("y"), method, args))>>)

CallPrograms ==
    {CallOf("set", <<NumericConst(0)>>),
     CallOf("set", <<Var("x")>>),
     CallOf("dup", <<NumericConst(0), NumericConst(1)>>),
     CallOf("own", <<NumericConst(0)>>),
     CallOf("__eq__", <<Var("y")>>),
     CallOf("__str__", <<>>),
     CallOf("__add__", <<Var("x")>>)}

\* x = <first> ; x = <second>
AssignPrograms ==
    {Compound(<<Assignment("x", first), Assignment("x", second)>>) :
         first \in {NumericConst(1), None, Var("u")},
         second \in {StringConst(<<"a">>), None, Var("x"), Var("u")}}

\* x = <value> ; y = <path>
PathPrograms ==
    {Compound(<<Assignment("x", value),
                Assignment("y", VariableValue(path))>>) :
         value \in {NumericConst(1), None, NewInstance("B", <<>>),
                    NewInstance("A", <<NumericConst(1)>>),
                    NewInstance("A", <<NewInstance("A", <<None>>)>>)},
         path \in {<<"x">>, <<"u">>, <<"x", "f">>, <<"x", "g">>,
                   <<"u", "f">>, <<"x", "f", "f">>}}

\* class P: ... ; print <operand>
PrintFormPrograms ==
    {Compound(<<ClassDefinition("P", 1), Print_Statement(<<arg>>)>>) :
         arg \in Operands \cup {NewInstance("S", <<>>)}}

ValuePrograms ==
    ComparisonPrograms \cup OrderPrograms \cup ArithmeticPrograms
        \cup LogicPrograms \cup PrintPrograms \cup ClassPrograms
        \cup CallPrograms \cup PrintFormPrograms \cup AssignPrograms
        \cup PathPrograms

InitValues ==
    /\ InitLexer
    /\ text = NoText
    /\ prog \in ValuePrograms
    /\ ndebug \in BOOLEAN
    /\ stack = <<Frame(prog)>>
    /\ closures = <<NoFields>>
    /\ heap = <<>>
    /\ mode = "call"
    /\ val = ObjectHolder_None
    /\ log = <<>>
    /\ output = <<>>

NextValues ==
    \/ NextEval
    \/ ValueStatement_Execute
    \/ None_Execute
    \/ ClassDefinition_Execute
    \/ Sub_Execute
    \/ Mult_Execute
    \/ Div_Execute
    \/ Or_Execute
    \/ And_Execute
    \/ Not_Execute
    \/ Comparison_Execute
    \/ Print_Execute

SpecValues == InitValues /\ [][NextValues]_vars

CurrentToken == Head(tokens_buffer_)

\* ------------------------------------------------------------ properties
RECURSIVE Repeat(_, _)
Repeat(token, n) == IF n <= 0 THEN <<>> ELSE <<token>> \o Repeat(token, n - 1)

\* the Indent or Dedent tokens that take level cur to level new
LevelChange(cur, new) ==
    IF new > cur THEN Repeat(Tok("Indent"), (new - cur) \div 2)
    ELSE Repeat(Tok("Dedent"), (cur - new) \div 2)

\* how many tokens at the head of ts are tokens of a line's text
RECURSIVE TextPrefix(_)
TextPrefix(ts) ==
    IF ts = <<>> \/ Head(ts).type \in StructuralTokens THEN 0
    ELSE 1 + TextPrefix(Tail(ts))

EofDelivered ==
    pc = "idle" /\ tokens_buffer_ # <<>> /\ CurrentToken.type = "Eof"

\* C1: when Eof is delivered without a LexerError, as many Dedent as Indent
\* tokens were delivered before it, whatever byte starts each line.
C1_BalancedAtEof == EofDelivered => delivered_bal = 0

\* C2: the first byte of a line's text (any class but newline, space, '#',
\* end-of-stream), read in NewLine with an even count `new` and level `cur`,
\* emits exactly the Indent/Dedent tokens from cur to new ahead of every
\* token of the line, and the level becomes new.
C2_IndentOnFirstChar ==
    (/\ fed.st = "NewLine"
     /\ SymbolIndex(fed.c) \in 4..10
     /\ fed.next % 2 = 0
     /\ ~fed.thrown)
    => LET want == LevelChange(fed.cur, fed.next)
       IN /\ Len(fed.out) >= Len(want)
          /\ SubSeq(fed.out, 1, Len(want)) = want
          /\ \A i \in Len(want) + 1 .. Len(fed.out) :
                 fed.out[i].type \notin {"Indent", "Dedent"}
          /\ current_indent_ws_ = fed.next

\* C3: an input with a token-bearing line whose leading space count is odd
\* is never lexed through to Eof.
C3_OddIndentNeverReachesEof == odd_line => ~EofDelivered

\* C4: whenever the constructor or NextToken has returned, the token queue
\* is non-empty.
C4_CurrentTokenExists == pc \in {"idle", "ub"} => tokens_buffer_ # <<>>

\* C5: at end-of-stream the lexer emits a Newline iff the last line carried
\* a token, then cur/2 Dedent tokens, then Eof, and no Indent.
C5_EndOfStreamTail ==
    (/\ fed.c = EOFC
     /\ fed.st \notin StringStates \cup {"EofState"}
     /\ ~fed.thrown)
    => LET k == TextPrefix(fed.out)
           tail == SubSeq(fed.out, k + 1, Len(fed.out))
           closing == IF fed.had_tokens \/ k > 0
                      THEN <<Tok("Newline")>> ELSE <<>>
       IN tail = closing \o Repeat(Tok("Dedent"), fed.cur \div 2)
                         \o <<Tok("Eof")>>

\* C6: the bytes of a blank line and of a comment-only line emit no token
\* and leave the indent level alone, and the spaces of such a line are not
\* counted into the indentation of the line after it.
C6_BlankAndCommentLines ==
    /\ (fed.st = "NewLine" /\ fed.c \in {"\n", "#"} \cup Spaces)
           => fed.out = <<>> /\ current_indent_ws_ = fed.cur
    /\ (fed.st = "LineComment" /\ fed.c # EOFC)
           => fed.out = <<>> /\ current_indent_ws_ = fed.cur
    /\ (state_ = "NewLine" /\ last_line \in {"blank", "comment"})
           => next_indent_ws_ = line_ws
    /\ (/\ fed.st = "NewLine"
        /\ SymbolIndex(fed.c) \in 4..10
        /\ last_line \in {"blank", "comment"})
           => fed.next = fed.ws

\* a blank line that held spaces has just ended
C6_Witness ==
    /\ fed.st = "NewLine"
    /\ fed.c = "\n"
    /\ fed.next > 0
    /\ last_line = "blank"
    /\ next_indent_ws_ = 0
    /\ pc = "feed"

\* C7: end-of-stream inside a string literal, also right after a backslash,
\* raises LexerError.
C7_EosInLiteralThrows ==
    (fed.c = EOFC /\ fed.st \in StringStates) => fed.thrown /\ pc = "error"

\* C8: a newline or end-of-stream between the quotes of a literal raises
\* LexerError and no String token is emitted for the literal.
C8_UnterminatedLiteralThrows ==
    lit_break => /\ pc = "error"
                 /\ \A i \in 1..Len(fed.out) : fed.out[i].type # "String"

CompareToken(prev_c) ==
    IF prev_c = "=" THEN "Eq"
    ELSE IF prev_c = "!" THEN "NotEq"
    ELSE IF prev_c = "<" THEN "LessOrEq"
    ELSE "GreaterOrEq"

\* C9: in Compare, '=' emits the one two-byte token the first byte selects;
\* any other byte emits the first byte as Char and is then lexed by its own
\* class, so '<', '>' or '!' opens a new look-ahead.
C9_CompareLookAhead ==
    (fed.st = "MayBeCompare" /\ ~fed.thrown)
    => IF fed.c = "="
       THEN /\ Len(fed.out) = 1
            /\ fed.out[1].type = CompareToken(fed.prev)
       ELSE /\ Len(fed.out) >= 1
            /\ fed.out[1].type = "Char"
            /\ fed.out[1].value = fed.prev
            /\ fed.c \in CompareChars
                   => /\ Len(fed.out) = 1
                      /\ state_ = "MayBeCompare"
                      /\ value_ = <<fed.c>>

\* C10: once NextToken has returned Eof, the lexer stays in EofState, emits
\* only Eof, and every later NextToken returns Eof with Eof current.
C10_EofIsFinal ==
    [][ret.type = "Eof"
       => /\ ret'.type = "Eof"
          /\ state_' = "EofState"
          /\ pc' \in {"idle", "feed"}
          /\ \A i \in 1..Len(tokens_buffer_') : tokens_buffer_'[i].type = "Eof"
          /\ pc' = "idle" => tokens_buffer_' # <<>>]_vars

\* NextToken has been called, and has returned, after Eof was returned
C10_Witness ==
    /\ ret.type = "Eof"
    /\ eof_returns = MaxEofReturns
    /\ pc = "idle"
    /\ CurrentToken.type = "Eof"

\* C11: every Lexer, the first of the process or a later one, is constructed
\* with current indent level 0 and pending leading-space count 0, however
\* the lexers before it were used.
C11_FreshIndentState ==
    pc = "new" => current_indent_ws_ = 0 /\ next_indent_ws_ = 0

\* the keyword spellings and their tokens
KeyWordTokens ==
    {<<<<"a", "n", "d">>, "And">>,
     <<<<"c", "l", "a", "s", "s">>, "Class">>,
     <<<<"d", "e", "f">>, "Def">>,
     <<<<"e", "l", "s", "e">>, "Else">>,
     <<<<"F", "a", "l", "s", "e">>, "False">>,
     <<<<"i", "f">>, "If">>,
     <<<<"N", "o", "n", "e">>, "None">>,
     <<<<"n", "o", "t">>, "Not">>,
     <<<<"o", "r">>, "Or">>,
     <<<<"p", "r", "i", "n", "t">>, "Print">>,
     <<<<"r", "e", "t", "u", "r", "n">>, "Return">>,
     <<<<"T", "r", "u", "e">>, "True">>}

WordTokenTypes == {"Id"} \cup {k[2] : k \in KeyWordTokens}

\* the one token a whole word stands for
WordToken(wd) ==
    IF \E k \in KeyWordTokens : k[1] = wd
    THEN Tok((CHOOSE k \in KeyWordTokens : k[1] = wd)[2])
    ELSE TokV("Id", wd)

\* the indices of the tokens of ts that are Id or keyword tokens
WordTokensIn(ts) == {i \in 1..Len(ts) : ts[i].type \in WordTokenTypes}

\* the byte after the word (or end-of-stream) has just been fed for the
\* first time
WordEnded ==
    /\ text.kind = "word"
    /\ \/ ~eos /\ nread = text.from + Len(text.part)
       \/ /\ fed.c = EOFC /\ fed.st # "EofState"
          /\ Len(text.bytes) = text.from + Len(text.part) - 1

\* C12: a maximal run of letters, digits and underscores that starts with a
\* letter or underscore emits no token while it is read and, at the byte
\* that ends it, exactly one word token, first of what that byte emits: the
\* keyword token when the whole run is one of the twelve keywords, else Id
\* with the run as its text.
C12_OneTokenPerWord ==
    /\ (/\ text.kind = "word"
        /\ ~eos
        /\ nread \in text.from .. text.from + Len(text.part) - 1)
           => /\ WordTokensIn(fed.out) = {}
              /\ ~fed.thrown
              /\ nread > text.from => fed.out = <<>>
    /\ WordEnded
           => /\ ~fed.thrown
              /\ WordTokensIn(fed.out) = {1}
              /\ fed.out[1] = WordToken(text.part)

\* the byte after a keyword, and after a word that only resembles one, was fed
C12_Witness ==
    /\ WordEnded
    /\ text.part \in {<<"r", "e", "t", "u", "r", "n">>, <<"i", "f", "f">>}
    /\ fed.c \in {"(", EOFC}
    /\ pc = "idle"

\* the payload of a literal body: each backslash and the byte after it
\* stand for one byte
RECURSIVE Payload(_)
Payload(b) ==
    IF b = <<>> THEN <<>>
    ELSE IF b[1] = "\\"
    THEN << IF b[2] = "n" THEN "\n" ELSE IF b[2] = "t" THEN "\t" ELSE b[2] >>
             \o Payload(SubSeq(b, 3, Len(b)))
    ELSE <<b[1]>> \o Payload(Tail(b))

\* the literal's closing quote has just been fed
LiteralClosed ==
    /\ text.kind = "string"
    /\ ~eos
    /\ nread = text.from + Len(text.part) + 1

\* C13: the bytes between the quotes of a terminated literal emit no token
\* and no error, and the closing quote emits exactly one String token whose
\* payload is the body with backslash-n as newline, backslash-t as tab and
\* backslash-X as X; the same for both kinds of quote.
C13_StringPayload ==
    /\ (/\ text.kind = "string"
        /\ ~eos
        /\ nread \in text.from + 1 .. text.from + Len(text.part))
           => fed.out = <<>> /\ ~fed.thrown
    /\ LiteralClosed
           => /\ ~fed.thrown
              /\ fed.out = <<TokV("String", Payload(text.part))>>

\* a double-quoted literal holding an escape and a single quote was closed
C13_Witness ==
    /\ LiteralClosed
    /\ text.bytes[text.from] = "\""
    /\ text.part = <<"\\", "t", "'">>
    /\ pc = "idle"

CommentStates == {"TrailingComment", "LineComment"}

\* the indices of the Newline tokens of ts
NewlinesIn(ts) == {i \in 1..Len(ts) : ts[i].type = "Newline"}

\* C14: outside a literal '#' emits nothing but the token that was pending
\* (word, number or comparison byte) and opens a comment; no byte of the
\* comment emits a token; a trailing comment ends, at the newline or at
\* end-of-stream, with exactly one Newline, a comment-only line with none.
C14_Comments ==
    /\ (fed.c = "#" /\ fed.st \in {"NewLine", "OutState", "MayBeId",
                                   "NumberState", "MayBeCompare"})
           => /\ ~fed.thrown
              /\ state_ = IF fed.st = "NewLine" THEN "LineComment"
                          ELSE "TrailingComment"
              /\ CASE fed.st = "MayBeId" ->
                          /\ Len(fed.out) = 1
                          /\ fed.out[1].type \in WordTokenTypes
                          /\ fed.out[1].type = "Id"
                                 => fed.out[1].value[1] = fed.prev
                   [] fed.st = "NumberState" ->
                          Len(fed.out) = 1 /\ fed.out[1].type = "Number"
                   [] fed.st = "MayBeCompare" ->
                          fed.out = <<TokV("Char", fed.prev)>>
                   [] OTHER -> fed.out = <<>>
    /\ (fed.st \in CommentStates /\ fed.c \notin {"\n", EOFC})
           => fed.out = <<>> /\ ~fed.thrown /\ state_ = fed.st
    /\ (fed.st \in CommentStates /\ fed.c = "\n")
           => /\ ~fed.thrown
              /\ state_ = "NewLine"
              /\ fed.out = IF fed.st = "TrailingComment"
                           THEN <<Tok("Newline")>> ELSE <<>>
    /\ (fed.st \in CommentStates /\ fed.c = EOFC /\ ~fed.thrown)
           => /\ fed.out # <<>>
              /\ fed.out[Len(fed.out)] = Tok("Eof")
              /\ NewlinesIn(fed.out) = IF fed.st = "TrailingComment"
                                       THEN {1} ELSE {}
              /\ \A i \in 1..Len(fed.out) : fed.out[i].type \in StructuralTokens

\* a trailing comment after a word was read through to its newline
C14_Witness ==
    /\ fed.st = "TrailingComment"
    /\ fed.c = "\n"
    /\ nread >= 4
    /\ line_ws = 0
    /\ state_ = "NewLine"
    /\ ret.type = "Newline"

\* the current token has type T (and, when a value is given, that value)
CurrentTokenIs(T, with_value, v) ==
    /\ tokens_buffer_ # <<>>
    /\ CurrentToken.type = T
    /\ with_value => CurrentToken.value = v

\* C15: Expect<T>() returns the current token's payload when the current
\* token has type T, Expect<T>(value) returns when it has type T and that
\* value; in every other case they throw LexerError; the queue, the cursor
\* and the DFA state are as before the call.
C15_Expect ==
    [][expect'.call # "none"
       => /\ UNCHANGED <<tokens_buffer_, state_, value_, ret, pc>>
          /\ expect'.result = "returned"
                 <=> CurrentTokenIs(expect'.kind,
                                    expect'.call = "Expect<T>(value)",
                                    expect'.value)
          /\ (expect'.call = "Expect<T>()" /\ expect'.result = "returned")
                 => expect'.payload = CurrentToken.value]_vars

\* C16: when a stream is lexed to its end without LexerError, the same
\* stream with one more newline at its end is lexed without LexerError too
\* and yields the same tokens, up to and including Eof.
C16_TrailingNewline ==
    (ending.reached /\ ~ending.thrown)
        => ~ending.thrown_nl /\ ending.out_nl = ending.out

\* the innermost invocation of MethodBody::Execute in progress, 0 if none
RECURSIVE InnermostBody(_, _)
InnermostBody(stk, i) ==
    IF i = 0 \/ stk[i].node.op = "MethodBody" THEN i
    ELSE InnermostBody(stk, i - 1)

\* C17: the value a Return throws is the value its statement produced; while
\* it unwinds, invocations only end, none starts, up to the innermost
\* MethodBody::Execute in progress, which returns exactly that value to its
\* caller and ends nothing below it; a method body that completes without a
\* Return returns None.
C17_ReturnEndsMethod ==
    [][/\ (mode = "ret" /\ mode' = "throw") => val' = val
       /\ mode = "throw" =>
            /\ stack' = Pop(stack)
            /\ val' = val
            /\ IF Len(stack) = InnermostBody(stack, Len(stack))
                 THEN mode' \in {"ret", "done"}
                 ELSE mode' \in {"throw", "terminate"}
       /\ (mode = "ret" /\ Top.node.op = "MethodBody") =>
            /\ stack' = Pop(stack)
            /\ val' = ObjectHolder_None
            /\ mode' \in {"ret", "done"}]_vars

\* a method called from a method body has just returned the object its
\* Return threw, and the caller's body goes on
C17_Witness ==
    /\ mode = "ret"
    /\ Top.node.op = "Call"
    /\ val.addr # 0
    /\ log[Len(log)] = Event("MethodBody", "catch", val)
    /\ log[Len(log) - 1] = Event("Return", "throw", val)
    /\ InnermostBody(stack, Len(stack)) > 0

\* the holders a program can get at: those in the closures, those in the
\* fields of the live instances, and the one an Execute has just returned
Reachable ==
    UNION {Range(closures[i]) : i \in 1..Len(closures)}
        \cup UNION {Range(heap[a].fields) :
                        a \in {b \in 1..Len(heap) : heap[b].alive}}
        \cup (IF mode \in {"ret", "done"} THEN {val} ELSE {})

\* C18: every holder in a closure, in a live instance's fields or returned
\* from Execute is empty or points to an object that is still alive.
C18_NoDanglingHolder == \A h \in Reachable : ~Dangling(h, heap)

\* C19: NewInstance::Execute makes a fresh ClassInstance of the class with
\* empty fields, unless arguments are supplied and the class provides no
\* __init__ of that many parameters: then it throws a runtime error and
\* returns no instance.
C19_NewInstance ==
    [][(At("NewInstance") /\ mode = "call") =>
          IF /\ Len(Top.node.args_) > 0
             /\ ~ClassInstance_HasMethod(Top.node.class_, INIT_METHOD,
                                         Len(Top.node.args_))
            THEN mode' \in {"runtime_error", Uncaught["runtime_error"]}
            ELSE /\ Len(heap') = Len(heap) + 1
                 /\ heap'[Len(heap')] = ClassInstance(Top.node.class_)]_vars

\* C20: once MethodCall::Execute has its object, it throws a runtime error
\* if the object is no ClassInstance or provides no method of that name and
\* that many parameters, before it evaluates any argument (the error of a
\* missing method may come from the call, when there is no argument to
\* evaluate before it); otherwise it goes on to its first argument, or to
\* the call if it has none.
C20_MethodCall ==
    [][(At("MethodCall") /\ mode = "ret" /\ Top.k = 1 /\ ~Dangling(val, heap)) =>
          IF \/ val.addr = 0
             \/ ~ClassInstance_HasMethod(heap[val.addr].cls,
                                         Top.node.method_name_,
                                         Len(Top.node.args_))
            THEN \/ mode' \in {"runtime_error", Uncaught["runtime_error"]}
                 \/ /\ val.addr # 0
                    /\ Top.node.args_ = <<>>
                    /\ mode' = "call"
                    /\ stack'[Len(stack')].node.op = "Call"
            ELSE /\ mode' = "call"
                 /\ Len(stack') = Len(stack) + 1
                 /\ stack'[Len(stack')].node =
                        IF Top.node.args_ = <<>>
                          THEN CallFrame(0, Top.node.method_name_, <<>>).node
                          ELSE Top.node.args_[1]]_vars

\* the class and its ancestors, nearest first
RECURSIVE Ancestry(_)
Ancestry(cls) ==
    IF cls = "" THEN <<>> ELSE <<cls>> \o Ancestry(Classes[cls].parent_)

\* the places in the ancestry of the classes that define the method
Defining(cls, name) ==
    {i \in 1..Len(Ancestry(cls)) :
         name \in DOMAIN Classes[Ancestry(cls)[i]].methods_}

\* the nearest class of the ancestry that defines the method
Nearest(cls, name) ==
    Ancestry(cls)[CHOOSE i \in Defining(cls, name) :
                      \A j \in Defining(cls, name) : i <= j]

\* C21: a call of a method on an instance enters the body of the method of
\* that name defined nearest in the ancestry of the instance's class, and
\* only if that method has as many formal parameters as the call has
\* arguments; otherwise (no class of the ancestry defines the name, or the
\* nearest definition has another number of parameters, whatever an
\* ancestor's definition has) the call throws a runtime error.
C21_NearestMethod ==
    [][(At("Call") /\ mode = "call") =>
          IF /\ Defining(heap[Top.self].cls, Top.node.method_name_) # {}
             /\ Len(Classes[Nearest(heap[Top.self].cls, Top.node.method_name_)]
                        .methods_[Top.node.method_name_].formal_params)
                    = Len(Top.vals)
            THEN /\ mode' = "call"
                 /\ stack'[Len(stack')].node =
                        Classes[Nearest(heap[Top.self].cls,
                                        Top.node.method_name_)]
                            .methods_[Top.node.method_name_].body
            ELSE mode' = "runtime_error"]_vars

\* a call of me with one argument on an instance of A has thrown a runtime
\* error: A's me takes none, the me of its parent Base takes one
C21_Witness ==
    /\ mode = "runtime_error"
    /\ log[Len(log)] = Event("runtime_error", "Call", ObjectHolder_None)
    /\ Top.node.op = "MethodCall"
    /\ Top.node.method_name_ = "me"
    /\ Len(Top.node.args_) = 1
    /\ heap[Top.vals[1].addr].cls = "A"
    /\ Len(Classes["Base"].methods_["me"].formal_params) = 1

\* the formal parameters of the method a call in progress is of
FormalParams(frame) ==
    Class_GetMethod(heap[frame.self].cls, frame.node.method_name_).formal_params

\* C22: a call that enters a method body does so in a new closure that
\* holds self, bound to the receiver, and every formal parameter, bound to
\* the actual argument of its position, and nothing else; while a method
\* runs only the innermost closure changes, and when the call returns the
\* closures of the callers are what they were.
C22_CallClosure ==
    [][/\ (At("Call") /\ mode = "call" /\ mode' = "call") =>
            /\ closures' = Append(closures, closures'[Len(closures')])
            /\ DOMAIN closures'[Len(closures')]
                   = {"self"} \cup Range(FormalParams(Top))
            /\ closures'[Len(closures')]["self"] = ObjectHolder_Share(Top.self)
            /\ \A i \in 1..Len(FormalParams(Top)) :
                   closures'[Len(closures')][FormalParams(Top)[i]] = Top.vals[i]
       /\ (At("Call") /\ mode = "ret") => closures' = Pop(closures)
       /\ (Len(closures) > 1 /\ Len(closures') >= Len(closures)) =>
            \A i \in 1..(Len(closures) - 1) : closures'[i] = closures[i]]_vars

\* the kinds Equal and Less compare by value
PrimitiveKinds == {"Number", "String", "Bool"}

\* the three ways Equal or Less is said to deal with a pair of operands
Comparable(fn, lhs, rhs, hp) ==
    IF \/ fn = "Equal" /\ lhs.addr = 0 /\ rhs.addr = 0
       \/ \E kind \in PrimitiveKinds : TryAs(lhs, kind, hp) /\ TryAs(rhs, kind, hp)
        THEN "value"
    ELSE IF /\ TryAs(lhs, "ClassInstance", hp)
            /\ TryAs(rhs, "ClassInstance", hp)
            /\ ClassInstance_HasMethod(hp[lhs.addr].cls, ComparisonMethod(fn), 1)
        THEN "call"
    ELSE "runtime_error"

\* C23: Equal and Less give a result for two operands of one primitive kind
\* and, Equal only, for two None operands; for two instances whose left one
\* has __eq__ (__lt__) of one parameter they call it and return the Bool it
\* returns, and throw a runtime error if it returns anything else; every
\* other pair of operands throws a runtime error.
C23_EqualLess ==
    [][/\ (/\ At("Comparison") /\ mode = "ret" /\ Top.k = 2
           /\ Top.node.comparator_ \in {"Equal", "Less"}
           /\ ~Dangling(Top.vals[1], heap) /\ ~Dangling(val, heap)) =>
            CASE Comparable(Top.node.comparator_, Top.vals[1], val, heap)
                     = "value" ->
                   /\ mode' \in {"ret", "done"}
                   /\ TryAs(val', "Bool", heap')
              [] Comparable(Top.node.comparator_, Top.vals[1], val, heap)
                     = "call" ->
                   /\ mode' = "call"
                   /\ stack'[Len(stack')].node.op = "Call"
              [] OTHER -> mode' \in {"runtime_error", "failed"}
       /\ (/\ At("Comparison") /\ mode = "ret" /\ Top.k = 3
           /\ Top.node.comparator_ \in {"Equal", "Less"}
           /\ ~Dangling(val, heap)) =>
            IF TryAs(val, "Bool", heap)
              THEN /\ mode' \in {"ret", "done"}
                   /\ TryAs(val', "Bool", heap')
                   /\ heap'[val'.addr].value = heap[val.addr].value
              ELSE mode' \in {"runtime_error", "failed"}]_vars

\* the Bool the finished program has bound to the name
Related(name) == heap[closures[1][name].addr].value

\* C24: on two values x, y of one primitive kind exactly one of Less(x, y),
\* Equal(x, y), Greater(x, y) is true, NotEqual is the negation of Equal,
\* LessOrEqual is Less or Equal, GreaterOrEqual is the negation of Less and
\* Equal(x, x) is true; Less is transitive, antisymmetric and total.
C24_TotalOrder ==
    (mode = "done" /\ "xx" \in DOMAIN closures[1]) =>
        /\ Related("lt") \/ Related("eq") \/ Related("gt")
        /\ ~(Related("lt") /\ Related("eq"))
        /\ ~(Related("lt") /\ Related("gt"))
        /\ ~(Related("eq") /\ Related("gt"))
        /\ Related("ne") = ~Related("eq")
        /\ Related("le") = (Related("lt") \/ Related("eq"))
        /\ Related("ge") = ~Related("lt")
        /\ Related("xx")
        /\ (Related("lt") /\ Related("yz")) => Related("xz")
        /\ ~(Related("lt") /\ Related("yx"))
        /\ Related("lt") \/ Related("eq") \/ Related("yx")

\* three values in ascending order have been compared
C24_Witness ==
    /\ mode = "done"
    /\ "xx" \in DOMAIN closures[1]
    /\ Related("lt") /\ Related("yz") /\ Related("xz")
    /\ Related("ge") = FALSE

\* an Execute has just returned a new object of that kind and value
Returned(kind, value) ==
    /\ mode' \in {"ret", "done"}
    /\ TryAs(val', kind, heap')
    /\ heap'[val'.addr].value = value

\* the Execute has thrown a runtime error
ThrewRuntimeError == mode' \in {"runtime_error", "failed"}

\* C25: Add::Execute executes its left and then its right operand; two
\* Numbers give the Number of their sum (where an int holds it), two Strings
\* the String of their concatenation; otherwise a left operand that is an
\* instance with __add__ of one parameter has that method called with the
\* right operand, whatever the right operand is, None included; every other
\* pair of operands throws a runtime error.
C25_Add ==
    [][/\ (At("Add") /\ mode = "call") =>
            stack'[Len(stack')].node = Top.node.lhs_
       /\ (At("Add") /\ mode = "ret" /\ Top.k = 1) =>
            stack'[Len(stack')].node = Top.node.rhs_
       /\ (/\ At("Add") /\ mode = "ret" /\ Top.k = 2
           /\ ~Dangling(Top.vals[1], heap) /\ ~Dangling(val, heap)) =>
            IF TryAs(Top.vals[1], "Number", heap) /\ TryAs(val, "Number", heap)
              THEN \/ mode' = "ub"
                   \/ Returned("Number", heap[Top.vals[1].addr].value
                                             + heap[val.addr].value)
            ELSE IF TryAs(Top.vals[1], "String", heap)
                        /\ TryAs(val, "String", heap)
              THEN Returned("String", heap[Top.vals[1].addr].value
                                          \o heap[val.addr].value)
            ELSE IF /\ TryAs(Top.vals[1], "ClassInstance", heap)
                    /\ ClassInstance_HasMethod(heap[Top.vals[1].addr].cls,
                                               ADD_METHOD, 1)
              THEN /\ mode' = "call"
                   /\ stack'[Len(stack')].node
                          = CallFrame(0, ADD_METHOD, <<>>).node
                   /\ stack'[Len(stack')].self = Top.vals[1].addr
                   /\ Len(stack'[Len(stack')].vals) = 1
                   /\ stack'[Len(stack')].vals[1].addr = val.addr
            ELSE ThrewRuntimeError]_vars

\* q is l / r of two ints, r not 0: the remainder l - q * r is nearer to 0
\* than r and has the sign of l
IsQuotient(q, l, r) ==
    /\ (l >= 0) => /\ l - q * r >= 0
                   /\ IF r > 0 THEN l - q * r < r ELSE q * r - l > r
    /\ (l < 0) => /\ l - q * r <= 0
                  /\ IF r > 0 THEN q * r - l < r ELSE l - q * r > r

\* the new value is that of l op r
IsResult(op, value, l, r) ==
    CASE op = "Sub" -> value = l - r
      [] op = "Mult" -> value = l * r
      [] op = "Div" -> IsQuotient(value, l, r)

\* C26: Sub, Mult and Div return a value only when both operands are
\* Numbers, and Div only when the right one is not 0: then the value is a
\* Number, the difference, product or quotient (where an int holds it); a
\* None or other non-Number operand, and a right operand 0 of Div whatever
\* the left Number is, throw a runtime error.
C26_SubMultDiv ==
    [][(/\ mode = "ret" /\ Top.node.op \in {"Sub", "Mult", "Div"} /\ Top.k = 2
        /\ ~Dangling(Top.vals[1], heap) /\ ~Dangling(val, heap)) =>
          IF /\ TryAs(Top.vals[1], "Number", heap)
             /\ TryAs(val, "Number", heap)
             /\ ~(Top.node.op = "Div" /\ heap[val.addr].value = 0)
            THEN \/ mode' = "ub"
                 \/ /\ mode' \in {"ret", "done"}
                    /\ TryAs(val', "Number", heap')
                    /\ IsResult(Top.node.op, heap'[val'.addr].value,
                                heap[Top.vals[1].addr].value,
                                heap[val.addr].value)
            ELSE ThrewRuntimeError]_vars

\* -1 / 0 has thrown a runtime error
C26_Witness ==
    /\ mode = "runtime_error"
    /\ log # <<>>
    /\ log[Len(log)] = Event("runtime_error", "Div", ObjectHolder_None)
    /\ prog = Evaluate(Div(NumericConst(-1), NumericConst(0)))

\* C27: after ClassDefinition::Execute the closure binds the class's name
\* to the class being defined, whether or not it had an entry of that name
\* before (an earlier class or a variable); the closure's other entries are
\* what they were, and Execute returns None.
C27_ClassDefinition ==
    [][(At("ClassDefinition") /\ mode = "call") =>
          /\ mode' \in {"ret", "done"}
          /\ val' = ObjectHolder_None
          /\ Len(closures') = Len(closures)
          /\ DOMAIN closures'[Len(closures)]
                 = DOMAIN CurrentClosure
                       \cup {Top.node.class_definition_.name_}
          /\ \A name \in DOMAIN CurrentClosure
                             \ {Top.node.class_definition_.name_} :
                 closures'[Len(closures)][name] = CurrentClosure[name]
          /\ TryAs(closures'[Len(closures)][Top.node.class_definition_.name_],
                   "Class", heap')
          /\ heap'[closures'[Len(closures)]
                       [Top.node.class_definition_.name_].addr].value
                 = Top.node.class_definition_.n]_vars

\* the bytes Print writes for an argument of the printing programs
PrintedForm(arg) ==
    CASE arg.op = "ValueStatement" -> Printed(ValueStatement_Value(arg))
      [] arg.op = "None" -> <<"N", "o", "n", "e">>
      [] arg.op = "NewInstance" ->
            IF ClassInstance_HasMethod(arg.class_, STR_METHOD, 0)
            THEN <<"a">> ELSE Pointer

\* the printed forms of the first n arguments with a space between them
RECURSIVE Joined(_, _)
Joined(args, n) ==
    IF n = 0 THEN <<>>
    ELSE IF n = 1 THEN PrintedForm(args[1])
    ELSE Joined(args, n - 1) \o <<" ">> \o PrintedForm(args[n])

\* C28: once a statement has thrown an error, invocations only end: no
\* statement is executed any more and nothing is written; what was written
\* stays written; and when the error comes from argument k of a Print, the
\* output holds what the Print wrote for its arguments 1..k-1, their printed
\* forms with a space between them, and neither a newline nor anything else
\* after them.
C28_ErrorKeepsOutput ==
    [][/\ Len(output) <= Len(output')
       /\ SubSeq(output', 1, Len(output)) = output
       /\ mode \in {"runtime_error", "out_of_range"} =>
            /\ stack' = Pop(stack)
            /\ output' = output
            /\ mode' \in {mode, Uncaught[mode]}
       /\ (/\ mode \in {"call", "ret"}
           /\ mode' \in {"runtime_error", "out_of_range"}
           /\ Len(stack') = 2
           /\ stack'[1].k = 1
           /\ stack'[2].node.op = "Print") =>
            output' = Joined(stack'[2].node.args_, stack'[2].k - 1)]_vars

\* an Execute has just returned a new Bool of that value, no operand
ReturnedBool(b) ==
    /\ Returned("Bool", b)
    /\ val'.addr > Len(heap)

\* C29: Or executes its right operand if and only if the left one is not
\* true, And if and only if the left one is true, and they return a new
\* Bool: Or of IsTrue(left) or IsTrue(right), And of IsTrue(left) and
\* IsTrue(right); Not returns a new Bool of not IsTrue(argument).
C29_OrAndNot ==
    [][/\ (/\ mode = "ret" /\ Top.node.op \in {"Or", "And"} /\ Top.k = 1
           /\ ~Dangling(val, heap)) =>
            IF IsTrue(val, heap) = (Top.node.op = "And")
              THEN /\ mode' = "call"
                   /\ stack'[Len(stack')].node = Top.node.rhs_
                   /\ Len(stack') = Len(stack) + 1
              ELSE ReturnedBool(Top.node.op = "Or")
       /\ (/\ mode = "ret" /\ Top.node.op \in {"Or", "And"} /\ Top.k = 2
           /\ ~Dangling(val, heap)) =>
            /\ IsTrue(Top.vals[1], heap) = (Top.node.op = "And")
            /\ ReturnedBool(IF Top.node.op = "Or"
                            THEN IsTrue(Top.vals[1], heap) \/ IsTrue(val, heap)
                            ELSE IsTrue(Top.vals[1], heap) /\ IsTrue(val, heap))
       /\ (At("Not") /\ mode = "ret" /\ ~Dangling(val, heap)) =>
            ReturnedBool(~IsTrue(val, heap))]_vars

\* 1 or u, with u not defined, has returned True: u was not executed
C29_Witness ==
    /\ mode = "ret"
    /\ prog = Evaluate(Or(NumericConst(1), Var("u")))
    /\ Top.node.op = "Assignment"
    /\ TryAs(val, "Bool", heap)
    /\ heap[val.addr].value = TRUE

\* what the object counts as, by its kind and value
Truth(obj) ==
    CASE obj.kind = "Bool" -> obj.value
      [] obj.kind = "Number" -> obj.value # 0
      [] obj.kind = "String" -> Len(obj.value) > 0
      [] obj.kind \in {"Class", "ClassInstance"} -> FALSE

\* C30: IsTrue of None is false; of a holder of an object it depends on the
\* object's kind and value only: a Bool is its value, a Number is true
\* unless it is 0, a String unless it is empty, and a Class and a
\* ClassInstance are false whatever their methods and fields.  Checked on
\* every live object of every reachable heap, through owning and sharing
\* holders alike.
C30_IsTrue ==
    /\ ~IsTrue(ObjectHolder_None, heap)
    /\ \A a \in 1..Len(heap) :
          heap[a].alive =>
              /\ IsTrue(ObjectHolder_Own(a), heap) = Truth(heap[a])
              /\ IsTrue(ObjectHolder_Share(a), heap) = Truth(heap[a])

\* not P() has returned True: the instance of P, a class with methods, is
\* not true; the class P is on the heap too
C30_Witness ==
    /\ mode = "ret"
    /\ prog = Evaluate(Not(NewInstance("P", <<>>)))
    /\ Top.node.op = "Assignment"
    /\ TryAs(val, "Bool", heap)
    /\ heap[val.addr].value = TRUE
    /\ \E a \in 1..Len(heap) : heap[a].kind = "Class"

\* the step has written exactly these bytes and then, at most, the space or
\* the newline that follows an argument
WroteForm(form) ==
    \/ output' = output \o form
    \/ output' = output \o form \o <<" ">>
    \/ output' = output \o form \o <<"\n">>

\* the printed form of a holder of no instance
FormOf(h, hp) ==
    IF h.addr = 0 THEN <<"N", "o", "n", "e">> ELSE Printed(hp[h.addr])

\* C31: printing a holder writes None for an empty holder, True or False
\* for a Bool, "Class " and the name for a Class; for an instance with
\* __str__ of no parameters it calls __str__ and writes the printed form of
\* what it returns, whatever that is, None for None.
C31_PrintedForms ==
    [][(At("Print") /\ mode = "ret" /\ ~Dangling(val, heap)) =>
          IF TryAs(val, "ClassInstance", heap)
            THEN IF ClassInstance_HasMethod(heap[val.addr].cls, STR_METHOD, 0)
                   THEN /\ mode' = "call"
                        /\ stack'[Len(stack')].node
                               = CallFrame(0, STR_METHOD, <<>>).node
                        /\ stack'[Len(stack')].self = val.addr
                        /\ output' = output
                   ELSE WroteForm(Pointer)
            ELSE WroteForm(FormOf(val, heap))]_vars

\* what a Print statement writes when none of its arguments fails
PrintedLine(statement) ==
    Joined(statement.args_, Len(statement.args_)) \o <<"\n">>

\* C32: Print::Execute executes its arguments from the first to the last,
\* changes no closure and returns None; a program of two Print statements
\* that ends has written, for each, the printed forms of its arguments with
\* one space between them and one newline after them, and only the newline
\* for a Print without arguments.
C32_PrintStatement ==
    [][/\ At("Print") =>
            /\ closures' = closures
            /\ (mode' = "call" /\ stack'[Len(stack')].node.op # "Call") =>
                   /\ Top.k < Len(Top.node.args_)
                   /\ stack'[Len(stack')].node = Top.node.args_[Top.k + 1]
                   /\ stack'[Len(stack)].k = Top.k + 1
            /\ (mode' \in {"ret", "done"}) =>
                   /\ Top.k = Len(Top.node.args_)
                   /\ val' = ObjectHolder_None
       /\ (/\ mode' = "done"
           /\ Len(prog.args_) = 2
           /\ prog.args_[1].op = "Print"
           /\ prog.args_[2].op = "Print") =>
            output' = PrintedLine(prog.args_[1]) \o PrintedLine(prog.args_[2])]_vars

\* print -1, 'a' ; print 0 has ended
C32_Witness ==
    /\ mode = "done"
    /\ prog = Compound(<<Print_Statement(<<NumericConst(-1),
                                            StringConst(<<"a">>)>>),
                         Print_Statement(<<NumericConst(0)>>)>>)
    /\ output = <<"-", "1", " ", "a", "\n", "0", "\n">>

\* C33: Assignment::Execute executes its right-hand side once; when that
\* returns a holder it binds the name to it in the closure, replacing what
\* the name was bound to, returns the same holder and changes no other
\* entry; when it throws, the closure stays what it was: in x = first ;
\* x = second it is empty if the first right-hand side throws, and holds
\* only x, bound to the first value, if the second one does.
C33_Assignment ==
    [][/\ (At("Assignment") /\ mode = "call") =>
            /\ closures' = closures
            /\ stack'[Len(stack')].node = Top.node.right_value_
            /\ stack' = Append(ReplaceTop(stack, stack'[Len(stack)]),
                               Frame(Top.node.right_value_))
       /\ (At("Assignment") /\ mode = "ret") =>
            /\ stack' = Pop(stack)
            /\ mode' \in {"ret", "done"}
            /\ val' = val
            /\ Len(closures') = Len(closures)
            /\ \A i \in 1..(Len(closures) - 1) : closures'[i] = closures[i]
            /\ DOMAIN closures'[Len(closures)]
                   = DOMAIN CurrentClosure \cup {Top.node.var_name_}
            /\ closures'[Len(closures)][Top.node.var_name_] = val
            /\ \A name \in DOMAIN CurrentClosure \ {Top.node.var_name_} :
                   closures'[Len(closures)][name] = CurrentClosure[name]
       /\ (At("Assignment") /\ mode \in Unwinding) =>
            /\ closures' = closures
            /\ (prog \in AssignPrograms /\ stack[1].k = 1) =>
                   closures = <<NoFields>>
            /\ (prog \in AssignPrograms /\ stack[1].k = 2) =>
                   /\ Len(closures) = 1
                   /\ DOMAIN closures[1] = {"x"}
                   /\ FormOf(closures[1]["x"], heap)
                          = PrintedForm(prog.args_[1].right_value_)]_vars

\* x = 1 ; x = 'a' has ended with x bound to the String
C33_Witness ==
    /\ mode = "done"
    /\ prog = Compound(<<Assignment("x", NumericConst(1)),
                         Assignment("x", StringConst(<<"a">>))>>)
    /\ TryAs(closures[1]["x"], "String", heap)
    /\ heap[closures[1]["x"].addr].value = <<"a">>

\* where the path leads from the holder obj, segment i onwards: ok is FALSE
\* when a value on the way is no instance or lacks the field
RECURSIVE Follow(_, _, _, _)
Follow(obj, ids, i, hp) ==
    IF i > Len(ids) THEN [ok |-> TRUE, h |-> obj]
    ELSE IF \/ ~TryAs(obj, "ClassInstance", hp)
            \/ ids[i] \notin DOMAIN hp[obj.addr].fields
        THEN [ok |-> FALSE, h |-> obj]
    ELSE Follow(hp[obj.addr].fields[ids[i]], ids, i + 1, hp)

\* C34: VariableValue::Execute throws a runtime error when the first name
\* of the path is not in the closure, and when a later segment is asked of
\* a value that is no instance or of an instance without a field of that
\* name (for the missing field the exception of map::at is taken for one);
\* otherwise it returns the holder at the end of the path; it never
\* changes the closures or the fields of an object.
C34_VariableValue ==
    [][(/\ At("VariableValue") /\ mode = "call"
        /\ VariableValue_Value(CurrentClosure, heap,
                               Top.node.dotted_ids_).st # "dangling") =>
          /\ closures' = closures
          /\ \A a \in 1..Len(heap) : heap'[a].fields = heap[a].fields
          /\ IF /\ Top.node.dotted_ids_[1] \in DOMAIN CurrentClosure
                /\ Follow(CurrentClosure[Top.node.dotted_ids_[1]],
                          Top.node.dotted_ids_, 2, heap).ok
               THEN /\ mode' \in {"ret", "done"}
                    /\ val' = Follow(CurrentClosure[Top.node.dotted_ids_[1]],
                                     Top.node.dotted_ids_, 2, heap).h
               ELSE mode' \in {"runtime_error", "failed",
                               "out_of_range", "failed_out_of_range"}]_vars

\* ------------------------------------------------------------ C35
\* the queue a call of the lexer ends with before NextToken pops: what was
\* queued and what the last FeedChar of the call pushed behind it
Fed == IF pc = "feed" THEN tokens_buffer_ \o fed'.out ELSE tokens_buffer_

\* C35: tokens are delivered in emission order, none lost and none twice,
\* up to the first Eof: FeedChar only appends to the queue, the constructor
\* returns with the first emitted token as the current one, and every
\* NextToken removes the current token and returns the one emitted next
C35_Fifo ==
    [][/\ pc = "feed" /\ pc' # "error"
          => SubSeq(Fed, 1, Len(tokens_buffer_)) = tokens_buffer_
       /\ pc = "feed" /\ caller = "ctor" /\ pc' \notin {"feed", "error"}
          => /\ Fed # <<>>
             /\ tokens_buffer_' = Fed
       /\ /\ pc = "idle" \/ (pc = "feed" /\ caller = "next")
          /\ pc' \notin {"feed", "error"}
          /\ tokens_buffer_ = <<>> \/ Head(tokens_buffer_).type # "Eof"
          => /\ pc' = "idle"
             /\ Len(Fed) >= 2
             /\ ret' = Fed[2]
             /\ tokens_buffer_' = Tail(Fed)]_vars

\* ------------------------------------------------------------ C37
\* Indents minus Dedents among the first n tokens of a sequence
RECURSIVE Balance(_, _)
Balance(tokens, n) ==
    IF n = 0 THEN 0 ELSE Balance(tokens, n - 1) + IndentDelta(tokens[n])

\* the tokens this lexer has emitted and not yet delivered: the queue behind
\* the current token
Undelivered == IF tokens_buffer_ = <<>> THEN <<>> ELSE Tail(tokens_buffer_)

\* C37: whenever the lexer is between two FeedChar calls, the current indent
\* level is a non-negative multiple of INDENT_SIZE_WS and is INDENT_SIZE_WS
\* times the number of Indent minus Dedent tokens this lexer has emitted so
\* far, and no prefix of its token stream holds more Dedents than Indents
C37_IndentLevel ==
    pc \in {"feed", "idle"}
    => /\ current_indent_ws_ >= 0
       /\ current_indent_ws_ % INDENT_SIZE_WS = 0
       /\ current_indent_ws_ =
              INDENT_SIZE_WS
                  * (delivered_bal + Balance(Undelivered, Len(Undelivered)))
       /\ \A n \in 0..Len(Undelivered) :
              delivered_bal + Balance(Undelivered, n) >= 0

\* ------------------------------------------------------------ C38
LayoutTokens == {"Newline", "Indent", "Dedent"}

\* the type of the token emitted before the k-th token of a sequence; the
\* queue is empty only while nothing has been emitted
Before(tokens, k) == IF k = 1 THEN "start" ELSE tokens[k - 1].type

\* C38: every Newline the lexer emits directly follows a token that is not
\* Newline, Indent or Dedent (so Newline is never first, never doubled, and
\* every line that ends in Newline holds a token), and every Indent or
\* Dedent is at the start of the stream or directly follows a Newline,
\* Indent or Dedent
C38_LineStructure ==
    [][pc = "feed"
       => \A k \in Len(tokens_buffer_) + 1 .. Len(Fed) :
              /\ Fed[k].type = "Newline"
                 => Before(Fed, k) \notin LayoutTokens \cup {"start"}
              /\ Fed[k].type \in {"Indent", "Dedent"}
                 => Before(Fed, k) \in LayoutTokens \cup {"start"}]_vars

\* one byte made the lexer emit a line's last token, its Newline and a Dedent
C38_Witness ==
    /\ Len(fed.out) >= 3
    /\ fed.out[1].type \notin LayoutTokens
    /\ fed.out[2].type = "Newline"
    /\ fed.out[3].type = "Dedent"

\* ------------------------------------------------------------ C36
\* C36: a byte that is not a digit, fed in NumberState without a LexerError,
\* makes the lexer emit the Number token of the digit run accumulated in
\* value_ first, and no second Number token, whatever the class of the byte
C36_NumberOnLeave ==
    [][/\ pc = "feed"
       /\ state_ = "NumberState"
       /\ fed'.c \notin Digits
       /\ pc' # "error"
       => /\ fed'.out # <<>>
          /\ fed'.out[1] = TokV("Number", FromChars(value_))
          /\ \A i \in 2..Len(fed'.out) : fed'.out[i].type # "Number"]_vars

\* =============================== lexer.cpp: the states with bool FeedChar
\* The members, the static counters, ProcessIndentation, PushKeyWordOrId
\* and PushNumberToken are those above.  A state's FeedChar returns whether
\* FeedQueue is to feed the next byte: a lexer and that answer.
Result(l, more) == [lexer |-> l, more |-> more]

\* the four lines that end every state's end-of-stream branch but
\* OutState's
OnEof_cpp(l) ==
    SetState(PushToken(ProcessIndentation(PushToken(l, Tok("Newline"))),
                       Tok("Eof")),
             "EofState")

NewLine_FeedChar_cpp(l, c) ==
    IF c = "\n" THEN Result(ZeroNextWS(l), TRUE)
    ELSE IF c = " " THEN Result(NextWSIncrement(l), TRUE)
    ELSE IF c = "#" THEN Result(SetState(l, "LineComment"), TRUE)
    ELSE IF c = EOFC
    THEN Result(SetState(PushToken(ProcessIndentation(ZeroNextWS(l)),
                                   Tok("Eof")),
                         "EofState"),
                FALSE)
    ELSE IF c = "_" \/ c \in Letters
    THEN Result(SetState(BeginNewValue(ProcessIndentation(l), c), "MayBeId"),
                TRUE)
    ELSE IF c \in Digits
    THEN Result(SetState(BeginNewValue(ProcessIndentation(l), c), "Number"),
                TRUE)
    ELSE IF c \in CompareChars
    THEN Result(SetState(BeginNewValue(ProcessIndentation(l), c),
                         "MayBeCompare"),
                TRUE)
    ELSE IF c = "'"
    THEN Result(SetState(ClearValue(ProcessIndentation(l)),
                         "SingleQuotationMark"),
                TRUE)
    ELSE IF c = "\""
    THEN Result(SetState(ClearValue(ProcessIndentation(l)),
                         "DoubleQuotationMark"),
                TRUE)
    ELSE Result(SetState(PushToken(ProcessIndentation(l), TokV("Char", c)),
                         "OutState"),
                FALSE)

\* what MayBeId, MayBeCompare and Number do with the byte that ends their
\* lexeme, once the lexeme's token is pushed; ids tells whether a letter
\* and digits whether a digit can be such a byte
AfterLexeme_cpp(l, c, ids, digits) ==
    IF c = "\n"
    THEN Result(SetState(PushToken(l, Tok("Newline")), "NewLine"), FALSE)
    ELSE IF c = " " THEN Result(SetState(l, "OutState"), FALSE)
    ELSE IF c = "#" THEN Result(SetState(l, "TrailingComment"), FALSE)
    ELSE IF c = EOFC THEN Result(OnEof_cpp(l), FALSE)
    ELSE IF ids /\ (c = "_" \/ c \in Letters)
    THEN Result(SetState(BeginNewValue(l, c), "MayBeId"), FALSE)
    ELSE IF digits /\ c \in Digits
    THEN Result(SetState(BeginNewValue(l, c), "Number"), FALSE)
    ELSE IF c \in CompareChars
    THEN Result(SetState(BeginNewValue(l, c), "MayBeCompare"), FALSE)
    ELSE IF c = "'"
    THEN Result(SetState(ClearValue(l), "SingleQuotationMark"), FALSE)
    ELSE IF c = "\""
    THEN Result(SetState(ClearValue(l), "DoubleQuotationMark"), FALSE)
    ELSE Result(SetState(PushToken(l, TokV("Char", c)), "OutState"), FALSE)

MayBeId_FeedChar_cpp(l, c) ==
    IF c = "_" \/ c \in Letters \/ c \in Digits
    THEN Result(PushChar(l, c), TRUE)
    ELSE AfterLexeme_cpp(PushKeyWordOrId(l), c, FALSE, FALSE)

MayBeCompare_FeedChar_cpp(l, c) ==
    IF c = "="
    THEN Result(SetState(
                    IF PrevChar(l) = "=" THEN PushToken(l, Tok("Eq"))
                    ELSE IF PrevChar(l) = "!" THEN PushToken(l, Tok("NotEq"))
                    ELSE IF PrevChar(l) = "<"
                    THEN PushToken(l, Tok("LessOrEq"))
                    ELSE PushToken(l, Tok("GreaterOrEq")),
                    "OutState"),
                FALSE)
    ELSE IF c \in CompareChars
    THEN Result(SetState(PushToken(PushToken(l, TokV("Char", PrevChar(l))),
                                   TokV("Char", c)),
                         "OutState"),
                FALSE)
    ELSE AfterLexeme_cpp(PushToken(l, TokV("Char", PrevChar(l))), c,
                         TRUE, TRUE)

Number_FeedChar_cpp(l, c) ==
    IF c \in Digits THEN Result(PushChar(l, c), TRUE)
    ELSE AfterLexeme_cpp(NumberState_PushNumberToken(l, c), c, TRUE, FALSE)

SingleQuotationMark_FeedChar_cpp(l, c) ==
    IF c = "\n" \/ c = EOFC THEN Result(Throw(l), FALSE)
    ELSE IF c = "'"
    THEN Result(SetState(MoveValue(PushToken(l, TokV("String", GetValue(l)))),
                         "OutState"),
                FALSE)
    ELSE IF c = "\\"
    THEN Result(SetState(l, "SingleQuotationMarkEscape"), TRUE)
    ELSE Result(PushChar(l, c), TRUE)

SingleQuotationMarkEscape_FeedChar_cpp(l, c) ==
    Result(SetState(PushChar(l, EscapedChar(c)), "SingleQuotationMark"), TRUE)

DoubleQuotationMark_FeedChar_cpp(l, c) ==
    IF c = "\n" \/ c = EOFC THEN Result(Throw(l), FALSE)
    ELSE IF c = "\""
    THEN Result(SetState(MoveValue(PushToken(l, TokV("String", GetValue(l)))),
                         "OutState"),
                FALSE)
    ELSE IF c = "\\"
    THEN Result(SetState(l, "DoubleQuotationMarkEscape"), TRUE)
    ELSE Result(PushChar(l, c), TRUE)

DoubleQuotationMarkEscape_FeedChar_cpp(l, c) ==
    Result(SetState(PushChar(l, EscapedChar(c)), "DoubleQuotationMark"), TRUE)

TrailingComment_FeedChar_cpp(l, c) ==
    IF c = "\n"
    THEN Result(SetState(PushToken(l, Tok("Newline")), "NewLine"), FALSE)
    ELSE IF c = EOFC THEN Result(OnEof_cpp(l), FALSE)
    ELSE Result(l, TRUE)

LineComment_FeedChar_cpp(l, c) ==
    IF c = "\n" THEN Result(SetState(l, "NewLine"), TRUE)
    ELSE IF c = EOFC
    THEN Result(SetState(PushToken(ProcessIndentation(l), Tok("Eof")),
                         "EofState"),
                FALSE)
    ELSE Result(l, TRUE)

\* the end-of-stream branch has no SetState call
OutState_FeedChar_cpp(l, c) ==
    IF c = "\n"
    THEN Result(SetState(PushToken(l, Tok("Newline")), "NewLine"), FALSE)
    ELSE IF c = " " THEN Result(l, TRUE)
    ELSE IF c = "#" THEN Result(SetState(l, "TrailingComment"), TRUE)
    ELSE IF c = EOFC
    THEN Result(PushToken(ProcessIndentation(PushToken(l, Tok("Newline"))),
                          Tok("Eof")),
                FALSE)
    ELSE IF c = "_" \/ c \in Letters
    THEN Result(SetState(BeginNewValue(l, c), "MayBeId"), TRUE)
    ELSE IF c \in Digits
    THEN Result(SetState(BeginNewValue(l, c), "Number"), TRUE)
    ELSE IF c \in CompareChars
    THEN Result(SetState(BeginNewValue(l, c), "MayBeCompare"), TRUE)
    ELSE IF c = "'"
    THEN Result(SetState(ClearValue(l), "SingleQuotationMark"), TRUE)
    ELSE IF c = "\""
    THEN Result(SetState(ClearValue(l), "DoubleQuotationMark"), TRUE)
    ELSE Result(PushToken(l, TokV("Char", c)), FALSE)

EofState_FeedChar_cpp(l, c) == Result(PushToken(l, Tok("Eof")), FALSE)

\* state_->FeedChar(this, c): the virtual call
FeedChar_cpp(l, c) ==
    CASE l.state_ = "NewLine" -> NewLine_FeedChar_cpp(l, c)
      [] l.state_ = "MayBeId" -> MayBeId_FeedChar_cpp(l, c)
      [] l.state_ = "MayBeCompare" -> MayBeCompare_FeedChar_cpp(l, c)
      [] l.state_ = "Number" -> Number_FeedChar_cpp(l, c)
      [] l.state_ = "SingleQuotationMark" ->
             SingleQuotationMark_FeedChar_cpp(l, c)
      [] l.state_ = "SingleQuotationMarkEscape" ->
             SingleQuotationMarkEscape_FeedChar_cpp(l, c)
      [] l.state_ = "DoubleQuotationMark" ->
             DoubleQuotationMark_FeedChar_cpp(l, c)
      [] l.state_ = "DoubleQuotationMarkEscape" ->
             DoubleQuotationMarkEscape_FeedChar_cpp(l, c)
      [] l.state_ = "TrailingComment" -> TrailingComment_FeedChar_cpp(l, c)
      [] l.state_ = "LineComment" -> LineComment_FeedChar_cpp(l, c)
      [] l.state_ = "OutState" -> OutState_FeedChar_cpp(l, c)
      [] l.state_ = "EofState" -> EofState_FeedChar_cpp(l, c)

\* the same observations of one FeedChar call of these states
Track_cpp(l, c, r) ==
    /\ UNCHANGED ending
    /\ fed' = Observe(l, c, r)
    /\ line_ws' = IF EndsLine(l.state_, c) THEN 0
                  ELSE IF l.state_ = "NewLine" /\ c \in Spaces
                       THEN line_ws + 1 ELSE line_ws
    /\ line_tokens' =
           IF EndsLine(l.state_, c) THEN FALSE
           ELSE \/ line_tokens
                \/ \E i \in Len(l.tokens_buffer_) + 1 .. Len(r.tokens_buffer_) :
                       r.tokens_buffer_[i].type \notin StructuralTokens
    /\ last_line' = IF ~EndsLine(l.state_, c) THEN last_line
                    ELSE IF l.state_ = "NewLine" THEN "blank"
                    ELSE IF l.state_ = "LineComment" THEN "comment"
                    ELSE "tokens"
    /\ odd_line' = \/ odd_line
                   \/ /\ l.state_ = "NewLine"
                      /\ SymbolIndex(c) \in 4..10
                      /\ line_ws % INDENT_SIZE_WS # 0
    /\ lit_break' = IF l.state_ \in StringStates /\ c \in {"\n", EOFC}
                    THEN TRUE
                    ELSE IF l.state_ \notin StringStates
                            /\ r.state_ \in StringStates
                         THEN FALSE ELSE lit_break

\* the rest of one iteration of the loop of this Lexer::FeedQueue once
\* state_->FeedChar(this, c) has answered, and, when the loop ends, the rest
\* of the function that called FeedQueue: the constructor, or NextToken,
\* which are the functions of the same names above
AfterFeedChar_cpp(l, c, result) ==
    /\ state_' = result.lexer.state_
    /\ value_' = result.lexer.value_
    /\ next_indent_ws_' = result.lexer.next_indent_ws_
    /\ current_indent_ws_' = result.lexer.current_indent_ws_
    /\ Track_cpp(l, c, result.lexer)
    /\ UNCHANGED <<caller, queue_size0, lexers, text, evars>>
    /\ expect' = NoExpect
    /\ IF result.lexer.thrown
       THEN /\ pc' = "error"
            /\ tokens_buffer_' = result.lexer.tokens_buffer_
            /\ UNCHANGED <<ret, delivered_bal, eof_returns>>
       ELSE IF c # EOFC /\ result.more
       THEN /\ pc' = "feed"
            /\ tokens_buffer_' = result.lexer.tokens_buffer_
            /\ UNCHANGED <<ret, delivered_bal, eof_returns>>
       ELSE IF caller = "ctor"
       THEN /\ pc' = "idle"
            /\ tokens_buffer_' = result.lexer.tokens_buffer_
            /\ delivered_bal' =
                   IF result.lexer.tokens_buffer_ = <<>> THEN delivered_bal
                   ELSE delivered_bal
                            + IndentDelta(Head(result.lexer.tokens_buffer_))
            /\ UNCHANGED <<ret, eof_returns>>
       ELSE PopAndReturn(result.lexer.tokens_buffer_)

FeedQueueIteration_cpp(c) ==
    /\ Len(FeedChar_cpp(Self, c).lexer.value_) <= MaxValue
    /\ AfterFeedChar_cpp(Self, c, FeedChar_cpp(Self, c))

\* the stream yields one more byte
FeedQueue_Char_cpp ==
    /\ pc = "feed"
    /\ ~eos
    /\ nread < MaxInput
    /\ \E c \in Chars : FeedQueueIteration_cpp(c)
    /\ nread' = nread + 1
    /\ UNCHANGED eos

\* the stream is exhausted: FillBuffer reads nothing, gcount() is 0
FeedQueue_Eof_cpp ==
    /\ pc = "feed"
    /\ FeedQueueIteration_cpp(EOFC)
    /\ eos' = TRUE
    /\ UNCHANGED nread

NextStates == Lexer_Lexer \/ NextToken \/ FeedQueue_Char_cpp \/ FeedQueue_Eof_cpp

\* one lexer of lexer.cpp's State classes, constructed on a stream and
\* asked for tokens
SpecStates == Init /\ [][NextStates]_vars

\* ------------------------------------------------------------ C39
\* Eof is among the tokens queued
EofEmitted == \E i \in 1..Len(tokens_buffer_) : tokens_buffer_[i].type = "Eof"

\* C39: in the State-class lexer of lexer.cpp, once Eof has been emitted
\* every token emitted after it is Eof, and once NextToken has returned Eof
\* every later NextToken returns Eof, whichever state saw end-of-stream
C39_OnlyEofAfterEof ==
    [][/\ pc = "feed" /\ EofEmitted
          => \A i \in 1..Len(fed'.out) : fed'.out[i].type = "Eof"
       /\ ret.type = "Eof" /\ pc' = "idle" => ret'.type = "Eof"]_vars

\* ------------------------------------------------------------ C40
\* the byte starts a token when fed to NewLine
StartsToken(c) == c \notin {"\n", " ", "#", EOFC}

\* C40: in the State-class lexer of lexer.cpp, the first token byte of a
\* line that follows a comment-only line is lexed as if the pending space
\* count were the line's own leading spaces, and end-of-stream inside a
\* comment-only line makes the lexer emit no Indent
C40_CommentLineIndent ==
    [][/\ pc = "feed" /\ state_ = "NewLine" /\ last_line = "comment"
          /\ StartsToken(fed'.c)
          => /\ next_indent_ws_ = line_ws
             /\ FeedChar_cpp(Self, fed'.c) =
                    FeedChar_cpp([Self EXCEPT !.next_indent_ws_ = line_ws],
                                 fed'.c)
       /\ pc = "feed" /\ state_ = "LineComment" /\ fed'.c = EOFC
          => \A i \in 1..Len(fed'.out) : fed'.out[i].type # "Indent"]_vars
====
